---- MODULE Spec2Model ----
(***************************************************************************)
(* Model of the chapter tools of cod.py and fb2_converter.py.              *)
(*                                                                         *)
(* A paragraph text is a sequence of character tokens.  TLC's strings are  *)
(* ASCII, so the Cyrillic heading word is written "Glava" (the exact       *)
(* spelling the patterns contain) and "GLAVA" stands for any other letter  *)
(* case of the same word, which only a re.IGNORECASE pattern accepts.      *)
(* Every other token is one character.                                     *)
(***************************************************************************)
EXTENDS Integers, Sequences, FiniteSets, TLC

VARIABLES
    op,                 \* the function that is running
    pc,                 \* its position: "loop", ..., "done"
    doc,                \* document.paragraphs: the texts, in order
    files,              \* the documents chosen for conversion (cod.py: files)
    idx,                \* 1-based index of the next element of the running loop
    fs0,                \* the output directory before the call
    fs,                 \* the output directory: path -> saved paragraphs
    current_open,       \* current_doc / current_label / current_title is not None
    current_title,      \* current_title, current_label
    current_paragraphs, \* body of current_doc / current_paragraphs / current_content
    created_files,      \* created_files
    skipped_chapters,   \* skipped_chapters
    chapters,           \* find_duplicate_chapters.chapters / find_missing_chapters.chapters
    content_map,        \* find_duplicate_chapters.content_map, in insertion order
    duplicates,         \* find_duplicate_chapters.duplicates
    raw_numbers,        \* find_missing_chapters.raw_numbers
    expected,           \* find_missing_chapters.expected
    missing,            \* find_missing_chapters.missing
    major_order,        \* find_missing_chapters.major_order
    majors,             \* find_missing_chapters.majors
    prev_major,         \* find_missing_chapters.prev_major (-1: None)
    prev_max_minor,     \* find_missing_chapters.prev_max_minor (-1: None)
    issues,             \* the value find_missing_chapters returned
    results,            \* check_english_words.results, in insertion order
    words,              \* the mapping check_english_words returned, in its order
    loaded,             \* the paragraphs of the document as it was opened
    docx,               \* document.paragraphs with their formatting and content
    separators,         \* collect_formatted_separators: results (paragraph indices)
    fix_calls,          \* the paragraphs fix_formatted_separator was called on, in order
    keywords,           \* the keyword arguments a caller passes to upload_chapters
    settings,           \* the options of upload_chapters that are set (not None, not False)
    driver,             \* upload_chapters.driver: "none", "started" or "quit"
    form,               \* the fields filled on the upload page that is open
    uploaded,           \* the paths sent to the file input, in order
    detections,         \* what the wait for the chapter link met, per file handled
    upload_results,     \* upload_chapters.results, in insertion order
    outcome,            \* how the call ended: "returned", "raised", "TypeError"
    animating,          \* GlowButton._animating
    offset,             \* GlowButton._offset
    span_px,            \* GlowButton._span_px
    animation_speed,    \* GlowButton._animation_speed
    pending,            \* the _animate callbacks scheduled with after() and not yet run
    image_state,        \* the state of the gradient image on the canvas
    image_x,            \* the x coordinate of the gradient image
    hovered             \* _current_background and _current_glow_multiplier are the hover ones

vars == <<op, pc, doc, files, idx, fs0, fs, current_open, current_title,
          current_paragraphs, created_files, skipped_chapters, chapters,
          content_map, duplicates, raw_numbers, expected, missing,
          major_order, majors, prev_major, prev_max_minor, issues,
          results, words, loaded, docx, separators, fix_calls,
          keywords, settings, driver, form, uploaded, detections, upload_results,
          outcome, animating, offset, span_px, animation_speed, pending,
          image_state, image_x, hovered>>

fileVars == <<fs, current_open, current_title, current_paragraphs,
              created_files, skipped_chapters>>
dupVars == <<chapters, content_map, duplicates>>
auditVars == <<raw_numbers, expected, missing, major_order, majors,
               prev_major, prev_max_minor, issues>>
wordVars == <<results, words>>
sepVars == <<loaded, docx, separators, fix_calls>>
uploadVars == <<keywords, settings, driver, form, uploaded, detections, upload_results, outcome>>
glowVars == <<animating, offset, span_px, animation_speed, pending, image_state, image_x, hovered>>

(***************************************************************************)
(* Bounds of the model.                                                    *)
(***************************************************************************)
\* longest document of the file-writing specification
MaxParas == 4
\* longest document of the numbering audit
MaxLabels == 4
\* most conversions of one convert_docx_to_fb2 session
MaxConversions == 3
\* longest document of the duplicate search
MaxDupParas == 6

(***************************************************************************)
(* Text: str.strip, the heading patterns, int, re.sub, len.                *)
(***************************************************************************)
Range(f) == {f[i] : i \in DOMAIN f}

Whitespace == {" ", "\n"}
DigitChars == {"0", "1", "2", "3", "4", "5", "6", "7", "8", "9"}
\* characters outside [\w\s.-], which the file-name sanitizer removes
Punctuation == {"!", "(", ")"}

RECURSIVE lstrip(_)
lstrip(s) == IF s # <<>> /\ Head(s) \in Whitespace THEN lstrip(Tail(s)) ELSE s

RECURSIVE rstrip(_)
rstrip(s) ==
    IF s # <<>> /\ s[Len(s)] \in Whitespace
    THEN rstrip(SubSeq(s, 1, Len(s) - 1))
    ELSE s

strip(s) == rstrip(lstrip(s))

\* len(text): the heading word has five letters, every other token is one
RECURSIVE len(_)
len(s) ==
    IF s = <<>> THEN 0
    ELSE (IF Head(s) \in {"Glava", "GLAVA"} THEN 5 ELSE 1) + len(Tail(s))

\* the number of tokens of s from position i on that lie in S (a greedy x+)
RECURSIVE Span(_, _, _)
Span(s, i, S) == IF i <= Len(s) /\ s[i] \in S THEN 1 + Span(s, i + 1, S) ELSE 0

HeadingWord(tok, ignorecase) == tok = "Glava" \/ (ignorecase /\ tok = "GLAVA")

\* re.compile(r"^Glava\s+(\d+)(?:\.(\d+))?"[, re.IGNORECASE]).match(text)
heading_match(text, ignorecase) ==
    LET ws    == Span(text, 2, Whitespace)
        d1    == Span(text, 2 + ws, DigitChars)
        dotAt == 2 + ws + d1
        d2    == IF dotAt <= Len(text) /\ text[dotAt] = "."
                 THEN Span(text, dotAt + 1, DigitChars)
                 ELSE 0
    IN  IF Len(text) >= 1 /\ HeadingWord(text[1], ignorecase) /\ ws >= 1 /\ d1 >= 1
        THEN [matched   |-> TRUE,
              major     |-> SubSeq(text, 2 + ws, 1 + ws + d1),
              has_minor |-> d2 >= 1,
              minor     |-> IF d2 >= 1 THEN SubSeq(text, dotAt + 1, dotAt + d2) ELSE <<>>]
        ELSE [matched |-> FALSE, major |-> <<>>, has_minor |-> FALSE, minor |-> <<>>]

\* re.sub(r"[^\w\s.-]", "", title).strip(), and the fallback name
sanitize(title, fallback) ==
    LET kept == strip(SelectSeq(title, LAMBDA c : c \notin Punctuation))
    IN  IF kept = <<>> THEN fallback ELSE kept

(***************************************************************************)
(* Paths.  A path of the output directory is a record: the stem as written *)
(* by the caller, the " (N)" suffixes appended to it, in order, and the    *)
(* extension.  A sanitized stem holds no parenthesis, so two records are   *)
(* the same path exactly when they are equal.                              *)
(***************************************************************************)
Path(stem, ext) == [stem |-> stem, sfx |-> <<>>, ext |-> ext]

\* an if in place of the while: the suffixed name is not looked up again
unique_from_once(existing, name, counter) ==
    [name EXCEPT !.sfx = Append(name.sfx, counter)]

\* the while loop of _unique_path / _unique_output_path, from `counter` on
RECURSIVE unique_from(_, _, _)
unique_from(existing, name, counter) ==
    LET candidate == [name EXCEPT !.sfx = Append(name.sfx, counter)]
    IN  IF candidate \in existing
        THEN unique_from(existing, name, counter + 1)
        ELSE candidate

\* the candidate returned without looking it up
unique_path_no_check(existing, name) == name

\* cod.py lines 54-61 and 103-110: _unique_path
unique_path(existing, name) ==
    IF name \in existing THEN unique_from(existing, name, 2) ELSE name

\* Document.save / ElementTree.write: creates the file or replaces its content
save(dir, path, content) == (path :> content) @@ dir

(***************************************************************************)
(* Inputs.                                                                 *)
(***************************************************************************)
H1    == <<"Glava", " ", "1">>
H1x   == <<" ", "Glava", " ", "1", "!">>
h2    == <<"GLAVA", " ", "2">>
H11   == <<"Glava", " ", "1", ".", "1">>
Ta    == <<"a">>
Tbbb  == <<"b", "b", "b">>
Blank == <<" ">>

ParaPool == {H1, H1x, h2, H11, Ta, Tbbb, Blank}

Documents == UNION {[1..n -> ParaPool] : n \in 0..MaxParas}

\* a file that was in the directory before the call
OldFile == <<<<"o", "l", "d">>>>

OldNames == {
    {},
    {Path(H1, "docx")},
    {Path(H1, "docx"), [stem |-> H1, sfx |-> <<2>>, ext |-> "docx"],
     Path(H11, "docx")}
}

Directory(names) == [p \in names |-> OldFile]

\* the heading of chapter `number` (a digit string), as the tests write it
Heading(number) == <<"Glava", " ">> \o number

IntegerPool == {Heading(<<"1">>), Heading(<<"2">>), Heading(<<"3">>),
                Heading(<<"4">>), Ta}

DecimalPool == {Heading(<<"1", ".", "1">>), Heading(<<"1", ".", "2">>),
                Heading(<<"1", ".", "3">>), Heading(<<"2", ".", "0">>),
                Heading(<<"2", ".", "1">>), Heading(<<"2", ".", "2">>),
                Heading(<<"3", ".", "1">>), Heading(<<"4", ".", "1">>),
                Heading(<<"1">>)}

AuditDocuments ==
    UNION {[1..n -> IntegerPool] \cup [1..n -> DecimalPool] : n \in 0..MaxLabels}

DupPool == {H1, h2, Ta, Blank}

DupDocuments == UNION {[1..n -> DupPool] : n \in 0..MaxDupParas}

\* the documents converted to FB2, and the files chosen for one session
Fb2Documents == {<<>>, <<H1, Ta>>, <<Blank, Tbbb, Blank>>}

DocxNames == {Path(H1, "docx"), [stem |-> H1, sfx |-> <<2>>, ext |-> "docx"],
              Path(H11, "docx")}

ChosenFiles == UNION {[1..n -> DocxNames] : n \in 0..MaxConversions}

OldFb2Names == {
    {},
    {Path(H1, "fb2")},
    {Path(H1, "fb2"), [stem |-> H1, sfx |-> <<2>>, ext |-> "fb2"]}
}

(***************************************************************************)
(* split_document                                                          *)
(***************************************************************************)
\* a wrong pattern: the minor part made mandatory
is_heading_minor_only(text) == heading_match(text, FALSE).has_minor

\* line 42 and 65: heading_pattern.match(text), without re.IGNORECASE
is_heading_split_document(text) == heading_match(text, FALSE).matched

\* the paragraph put in front of the body
append_body_in_front(open, body, para) == IF open THEN <<para>> \o body ELSE body

\* lines 76-79: a body paragraph joins the open chapter, if there is one
append_body(open, body, para) == IF open THEN Append(body, para) ELSE body

\* lines 67-73 and 82-88: save the open chapter under a fresh name
split_document_save(dir, title, body) ==
    LET sanitized == sanitize(title, <<"section">>)
        out_path  == unique_path(DOMAIN dir, Path(sanitized, "docx"))
    IN  [fs |-> save(dir, out_path, body), out_path |-> out_path]

SplitDocumentStep ==
    /\ op = "split_document" /\ pc = "loop" /\ idx <= Len(doc)
    /\ LET para == doc[idx]
           text == strip(para)
       IN  IF is_heading_split_document(text)
           THEN /\ IF current_open
                   THEN LET s == split_document_save(fs, current_title, current_paragraphs)
                        IN  /\ fs' = s.fs
                            /\ created_files' = Append(created_files, s.out_path)
                   ELSE UNCHANGED <<fs, created_files>>
                /\ current_open' = TRUE
                /\ current_title' = text
                /\ current_paragraphs' = <<>>
           ELSE /\ current_paragraphs' = append_body(current_open, current_paragraphs, para)
                /\ UNCHANGED <<fs, created_files, current_open, current_title>>
    /\ idx' = idx + 1
    /\ UNCHANGED <<wordVars, sepVars, op, pc, doc, files, fs0, uploadVars, glowVars, skipped_chapters, dupVars, auditVars>>

SplitDocumentReturn ==
    /\ op = "split_document" /\ pc = "loop" /\ idx > Len(doc)
    /\ IF current_open
       THEN LET s == split_document_save(fs, current_title, current_paragraphs)
            IN  /\ fs' = s.fs
                /\ created_files' = Append(created_files, s.out_path)
       ELSE UNCHANGED <<fs, created_files>>
    /\ pc' = "done"
    /\ UNCHANGED <<wordVars, sepVars, op, doc, files, idx, fs0, uploadVars, glowVars, current_open, current_title,
                   current_paragraphs, skipped_chapters, dupVars, auditVars>>

(***************************************************************************)
(* split_chapters_into_two                                                 *)
(***************************************************************************)
\* line 96 and 163: heading_pattern.match(text), with re.IGNORECASE
is_heading_split_two(text) == heading_match(text, TRUE).matched

\* the minor left out of the label
chapter_label_major_only(text) == heading_match(text, TRUE).major

\* lines 167-169: the label is the matched digits, "major" or "major.minor"
chapter_label(text) ==
    LET m == heading_match(text, TRUE)
    IN  IF m.has_minor THEN m.major \o <<".">> \o m.minor ELSE m.major

Max(a, b) == IF a >= b THEN a ELSE b

\* the length taken as it is, 0 for a blank paragraph
weights_without_floor(paragraphs) ==
    [i \in 1..Len(paragraphs) |-> len(strip(paragraphs[i]))]

\* line 122
weights(paragraphs) ==
    [i \in 1..Len(paragraphs) |-> Max(len(strip(paragraphs[i])), 1)]

RECURSIVE sum(_)
sum(w) == IF w = <<>> THEN 0 ELSE Head(w) + sum(Tail(w))

\* lines 128-132: the first index whose cumulative weight reaches the target
\* total_weight / 2 (cumulative >= total / 2 as 2 * cumulative >= total);
\* without a break the index keeps its initial value
RECURSIVE first_reaching(_, _, _, _, _)
first_reaching(w, index, cumulative, total_weight, initial) ==
    IF index > Len(w) THEN initial
    ELSE IF 2 * (cumulative + w[index]) >= total_weight THEN index
    ELSE first_reaching(w, index + 1, cumulative + w[index], total_weight, initial)

\* the index before the loop: len(paragraphs) // 2, never updated
split_index_initial(paragraphs) ==
    IF Len(paragraphs) \div 2 <= 0 THEN 1 ELSE Len(paragraphs) \div 2

\* the index the loop leaves, without the clamps that follow it
split_index_unclamped(paragraphs) ==
    LET w == weights(paragraphs)
    IN  first_reaching(w, 1, 0, sum(w), Len(paragraphs) \div 2)

\* lines 122-137: the split index, clamped
split_index(paragraphs) ==
    LET w  == weights(paragraphs)
        n  == Len(paragraphs)
        k0 == first_reaching(w, 1, 0, sum(w), n \div 2)
        k1 == IF k0 >= n THEN n - 1 ELSE k0
    IN  IF k1 <= 0 THEN 1 ELSE k1

\* paragraphs[a:b] of Python, 0 <= a, b: out-of-range bounds are clamped
slice(s, a, b) ==
    LET hi == IF b > Len(s) THEN Len(s) ELSE b
    IN  IF a >= hi THEN <<>> ELSE SubSeq(s, a + 1, hi)

\* the second half starting one paragraph late
halves_off_by_one(paragraphs, k) ==
    [first  |-> slice(paragraphs, 0, k),
     second |-> slice(paragraphs, k + 1, Len(paragraphs))]

\* lines 139-140: paragraphs[:split_index], paragraphs[split_index:]
halves(paragraphs, k) ==
    [first  |-> slice(paragraphs, 0, k),
     second |-> slice(paragraphs, k, Len(paragraphs))]

\* lines 152-157: the path of part part_index of the chapter
part_path(existing, label, part_index) ==
    LET chapter_name == <<"Glava", " ">> \o label \o <<".", part_index>>
        sanitized    == sanitize(chapter_name, <<"chapter_", part_index>>)
    IN  unique_path(existing, Path(sanitized, "docx"))

\* lines 122-159: _save_split for a chapter of two paragraphs or more
split_weighted(dir, created, skipped, label, paragraphs) ==
    LET h == halves(paragraphs, split_index(paragraphs))
    IN  IF h.second = <<>>
        THEN [fs |-> dir, created_files |-> created,
              skipped_chapters |-> Append(skipped, label)]
        ELSE LET p1 == part_path(DOMAIN dir, label, "1")
                 d1 == save(dir, p1, h.first)
                 p2 == part_path(DOMAIN d1, label, "2")
                 d2 == save(d1, p2, h.second)
             IN  [fs |-> d2, created_files |-> created \o <<p1, p2>>,
                  skipped_chapters |-> skipped]

\* the early return after the skip left out
save_split_no_return(dir, created, skipped, label, paragraphs) ==
    IF Len(paragraphs) < 2
    THEN split_weighted(dir, created, Append(skipped, label), label, paragraphs)
    ELSE split_weighted(dir, created, skipped, label, paragraphs)

\* lines 117-159: _save_split
save_split(dir, created, skipped, label, paragraphs) ==
    IF Len(paragraphs) < 2
    THEN [fs |-> dir, created_files |-> created,
          skipped_chapters |-> Append(skipped, label)]
    ELSE split_weighted(dir, created, skipped, label, paragraphs)

SplitTwoStep ==
    /\ op = "split_chapters_into_two" /\ pc = "loop" /\ idx <= Len(doc)
    /\ LET paragraph == doc[idx]
           text      == strip(paragraph)
       IN  IF is_heading_split_two(text)
           THEN /\ IF current_open
                   THEN LET s == save_split(fs, created_files, skipped_chapters,
                                            current_title, current_paragraphs)
                        IN  /\ fs' = s.fs
                            /\ created_files' = s.created_files
                            /\ skipped_chapters' = s.skipped_chapters
                   ELSE UNCHANGED <<fs, created_files, skipped_chapters>>
                /\ current_open' = TRUE
                /\ current_title' = chapter_label(text)
                /\ current_paragraphs' = <<>>
           ELSE /\ current_paragraphs' =
                       IF current_open THEN Append(current_paragraphs, paragraph)
                       ELSE current_paragraphs
                /\ UNCHANGED <<fs, created_files, skipped_chapters,
                               current_open, current_title>>
    /\ idx' = idx + 1
    /\ UNCHANGED <<wordVars, sepVars, op, pc, doc, files, fs0, uploadVars, glowVars, dupVars, auditVars>>

SplitTwoReturn ==
    /\ op = "split_chapters_into_two" /\ pc = "loop" /\ idx > Len(doc)
    /\ IF current_open
       THEN LET s == save_split(fs, created_files, skipped_chapters,
                                current_title, current_paragraphs)
            IN  /\ fs' = s.fs
                /\ created_files' = s.created_files
                /\ skipped_chapters' = s.skipped_chapters
       ELSE UNCHANGED <<fs, created_files, skipped_chapters>>
    /\ pc' = "done"
    /\ UNCHANGED <<wordVars, sepVars, op, doc, files, idx, fs0, uploadVars, glowVars, current_open, current_title,
                   current_paragraphs, dupVars, auditVars>>

(***************************************************************************)
(* convert_docx_to_fb2, called for each chosen file                        *)
(***************************************************************************)
\* fb2_converter.py lines 35-40: the stripped texts that are not empty
fb2_paragraphs(document) ==
    LET stripped == [i \in 1..Len(document) |-> strip(document[i])]
    IN  SelectSeq(stripped, LAMBDA t : t # <<>>)

\* fb2_converter.py lines 14-21: Path(original_name).stem + ".fb2", made unique
unique_output_path(existing, original_name) ==
    LET candidate == [original_name EXCEPT !.ext = "fb2"]
    IN  IF candidate \in existing
        THEN unique_from(existing, candidate, 2)
        ELSE candidate

\* cod.py lines 1008-1011 with fb2_converter.py lines 24-47: one conversion
ConvertDocxToFb2 ==
    /\ op = "convert_docx_to_fb2" /\ pc = "loop" /\ idx <= Len(files)
    /\ LET output_path == unique_output_path(DOMAIN fs, files[idx])
       IN  /\ fs' = save(fs, output_path, fb2_paragraphs(doc))
           /\ created_files' = Append(created_files, output_path)
    /\ idx' = idx + 1
    /\ UNCHANGED <<wordVars, sepVars, op, pc, doc, files, fs0, uploadVars, glowVars, current_open, current_title,
                   current_paragraphs, skipped_chapters, dupVars, auditVars>>

ConvertReturn ==
    /\ op = "convert_docx_to_fb2" /\ pc = "loop" /\ idx > Len(files)
    /\ pc' = "done"
    /\ UNCHANGED <<wordVars, sepVars, op, doc, files, idx, fs0, uploadVars, glowVars, fileVars, dupVars, auditVars>>

(***************************************************************************)
(* find_duplicate_chapters                                                 *)
(***************************************************************************)
\* every paragraph with text taken for a title
is_heading_nonblank(text) == text # <<>>

\* line 210 and 217: heading_pattern.match(text), with re.IGNORECASE
is_heading_duplicates(text) == heading_match(text, TRUE).matched

\* "\n".join(texts)
RECURSIVE join_lines(_)
join_lines(texts) ==
    IF texts = <<>> THEN <<>>
    ELSE IF Len(texts) = 1 THEN texts[1]
    ELSE texts[1] \o <<"\n">> \o join_lines(Tail(texts))

\* lines 219-220 and 227-228: the closed chapter, title and content key
closed_chapter(title, content) ==
    [title |-> title, content |-> strip(join_lines(content))]

\* the title replaces the group instead of joining it
group_title_replacing(map, title, content) ==
    IF \E k \in 1..Len(map) : map[k].content = content
    THEN [k \in 1..Len(map) |->
             IF map[k].content = content
             THEN [content |-> content, titles |-> <<title>>]
             ELSE map[k]]
    ELSE Append(map, [content |-> content, titles |-> <<title>>])

\* line 232: content_map.setdefault(content, []).append(title); a new key
\* goes to the end of the dict
group_title(map, title, content) ==
    IF \E k \in 1..Len(map) : map[k].content = content
    THEN [k \in 1..Len(map) |->
             IF map[k].content = content
             THEN [map[k] EXCEPT !.titles = Append(@, title)]
             ELSE map[k]]
    ELSE Append(map, [content |-> content, titles |-> <<title>>])

\* every group reported, the single chapters too
report_every_group(map) == map

\* lines 234-237: the groups of more than one title, in dict order
report_duplicates(map) == SelectSeq(map, LAMBDA g : Len(g.titles) > 1)

DuplicatesScanStep ==
    /\ op = "find_duplicate_chapters" /\ pc = "loop" /\ idx <= Len(doc)
    /\ LET text == strip(doc[idx])
       IN  IF is_heading_duplicates(text)
           THEN /\ chapters' =
                       IF current_open
                       THEN Append(chapters, closed_chapter(current_title, current_paragraphs))
                       ELSE chapters
                /\ current_open' = TRUE
                /\ current_title' = text
                /\ current_paragraphs' = <<>>
           ELSE /\ current_paragraphs' =
                       IF current_open THEN Append(current_paragraphs, text)
                       ELSE current_paragraphs
                /\ UNCHANGED <<chapters, current_open, current_title>>
    /\ idx' = idx + 1
    /\ UNCHANGED <<wordVars, sepVars, op, pc, doc, files, fs0, uploadVars, glowVars, fs, created_files, skipped_chapters,
                   content_map, duplicates, auditVars>>

\* lines 226-228: the chapter still open at the end of the document
DuplicatesScanEnd ==
    /\ op = "find_duplicate_chapters" /\ pc = "loop" /\ idx > Len(doc)
    /\ chapters' =
           IF current_open
           THEN Append(chapters, closed_chapter(current_title, current_paragraphs))
           ELSE chapters
    /\ pc' = "group"
    /\ idx' = 1
    /\ UNCHANGED <<wordVars, sepVars, op, doc, files, fs0, uploadVars, glowVars, fileVars, content_map, duplicates, auditVars>>

\* lines 231-232: one chapter joins the group of its content
DuplicatesGroupStep ==
    /\ op = "find_duplicate_chapters" /\ pc = "group" /\ idx <= Len(chapters)
    /\ content_map' = group_title(content_map, chapters[idx].title, chapters[idx].content)
    /\ idx' = idx + 1
    /\ UNCHANGED <<wordVars, sepVars, op, pc, doc, files, fs0, uploadVars, glowVars, fileVars, chapters, duplicates, auditVars>>

\* lines 234-239
DuplicatesReturn ==
    /\ op = "find_duplicate_chapters" /\ pc = "group" /\ idx > Len(chapters)
    /\ duplicates' = report_duplicates(content_map)
    /\ pc' = "done"
    /\ UNCHANGED <<wordVars, sepVars, op, doc, files, idx, fs0, uploadVars, glowVars, fileVars, chapters, content_map, auditVars>>

(***************************************************************************)
(* find_missing_chapters                                                   *)
(***************************************************************************)
\* int(value) of a digit string
RECURSIVE to_int(_)
to_int(digits) ==
    IF digits = <<>> THEN 0
    ELSE 10 * to_int(SubSeq(digits, 1, Len(digits) - 1))
         + (CHOOSE v \in 0..9 : <<"0", "1", "2", "3", "4", "5", "6", "7", "8", "9">>[v + 1]
                                    = digits[Len(digits)])

\* str(n) of n >= 0, as the f-strings of _format_chapter_number write it
RECURSIVE to_str(_)
to_str(n) ==
    LET digit == <<"0", "1", "2", "3", "4", "5", "6", "7", "8", "9">>[(n % 10) + 1]
    IN  IF n < 10 THEN <<digit>> ELSE Append(to_str(n \div 10), digit)

\* lines 242-247: _format_chapter_number
format_chapter_number(parts) ==
    IF Len(parts) = 1
    THEN <<"Glava", " ">> \o to_str(parts[1])
    ELSE <<"Glava", " ">> \o to_str(parts[1]) \o <<".">> \o to_str(parts[2])

\* line 254 and 259: heading_pattern.match(text), with re.IGNORECASE
is_heading_missing(text) == heading_match(text, TRUE).matched

\* lines 254-261: match.group(1) of every heading, in document order
RECURSIVE collect_raw_numbers(_)
collect_raw_numbers(paragraphs) ==
    IF paragraphs = <<>> THEN <<>>
    ELSE LET m    == heading_match(strip(Head(paragraphs)), TRUE)
             rest == collect_raw_numbers(Tail(paragraphs))
         IN  IF is_heading_missing(strip(Head(paragraphs)))
             THEN <<IF m.has_minor THEN m.major \o <<".">> \o m.minor ELSE m.major>> \o rest
             ELSE rest

\* "." in value
has_dot(value) == "." \in Range(value)

\* line 266
contains_decimal(raw) == {i \in 1..Len(raw) : has_dot(raw[i])} # {}

\* value.split("."): the parts of a matched number (one dot at most)
split_dot(value) ==
    IF has_dot(value)
    THEN LET d == CHOOSE i \in 1..Len(value) : value[i] = "."
         IN  <<SubSeq(value, 1, d - 1), SubSeq(value, d + 1, Len(value))>>
    ELSE <<value>>

\* line 269
numbers_of(raw) == [i \in 1..Len(raw) |-> to_int(raw[i])]

\* the counter started at 1
initial_expected_one(numbers) == 1

\* line 271: expected = numbers[0]
initial_expected(numbers) == numbers[1]

\* the labels (major-only) from..to-1, formatted
RECURSIVE missing_range(_, _)
missing_range(from, to) ==
    IF from >= to THEN <<>>
    ELSE <<format_chapter_number(<<from>>)>> \o missing_range(from + 1, to)

\* lines 281-286: the (major, minor) pairs; a number without a minor is dropped
RECURSIVE decimal_chapters(_)
decimal_chapters(raw) ==
    IF raw = <<>> THEN <<>>
    ELSE LET parts == split_dot(Head(raw))
         IN  IF Len(parts) # 2 THEN decimal_chapters(Tail(raw))
             ELSE <<<<to_int(parts[1]), to_int(parts[2])>>>> \o decimal_chapters(Tail(raw))

\* lines 295-299: the distinct majors in first-seen order
RECURSIVE major_order_of(_, _)
major_order_of(pairs, seen) ==
    IF pairs = <<>> THEN <<>>
    ELSE IF Head(pairs)[1] \in seen THEN major_order_of(Tail(pairs), seen)
    ELSE <<Head(pairs)[1]>> \o major_order_of(Tail(pairs), seen \cup {Head(pairs)[1]})

\* lines 295-299: majors[major], the minors of the major in document order
majors_of(pairs) ==
    [major \in {pairs[i][1] : i \in 1..Len(pairs)} |->
        LET own == SelectSeq(pairs, LAMBDA c : c[1] = major)
        IN  [k \in 1..Len(own) |-> own[k][2]]]

\* lines 312-313: list(dict.fromkeys(minors)) sorted
RECURSIVE sorted(_)
sorted(S) ==
    IF S = {} THEN <<>>
    ELSE LET least == CHOOSE x \in S : \A y \in S : x <= y
         IN  <<least>> \o sorted(S \ {least})

ordered_minors_of(minors) == sorted(Range(minors))

\* the labels major.from .. major.to, formatted
RECURSIVE minor_range(_, _, _)
minor_range(major, from, to) ==
    IF from > to THEN <<>>
    ELSE <<format_chapter_number(<<major, from>>)>> \o minor_range(major, from + 1, to)

\* lines 308-310: every minor 1..limit of the majors gap_from .. major-1
RECURSIVE gap_majors(_, _, _)
gap_majors(gap_from, major, limit) ==
    IF gap_from >= major THEN <<>>
    ELSE minor_range(gap_from, 1, limit) \o gap_majors(gap_from + 1, major, limit)

\* lines 305-310
gap_fill(prev, prev_max, major) ==
    IF prev # -1 /\ major - prev > 1
    THEN gap_majors(prev + 1, major, Max(IF prev_max # -1 THEN prev_max ELSE 1, 1))
    ELSE <<>>

\* lines 315-320: the minors absent below each present one
RECURSIVE within_major(_, _, _)
within_major(major, ordered_minors, expected_minor) ==
    IF ordered_minors = <<>> THEN <<>>
    ELSE minor_range(major, expected_minor, Head(ordered_minors) - 1)
         \o within_major(major, Tail(ordered_minors), Head(ordered_minors) + 1)

\* line 322
current_max_minor_of(ordered_minors) ==
    IF ordered_minors # <<>> THEN ordered_minors[Len(ordered_minors)] ELSE 0

\* lines 325-327: the minors above the major's largest, up to prev_max_minor
degrade_fill(prev_max, major, current_max_minor) ==
    IF prev_max # -1 /\ current_max_minor < prev_max
    THEN minor_range(major, current_max_minor + 1, prev_max)
    ELSE <<>>

\* the largest minor seen so far kept as the reference
next_prev_max_minor_established(prev_max, original_max_minor) ==
    Max(prev_max, IF original_max_minor # 0 THEN original_max_minor ELSE 1)

\* lines 330-333
next_prev_max_minor(prev_max, original_max_minor) ==
    IF original_max_minor # 0 THEN original_max_minor
    ELSE IF prev_max = -1 THEN 1
    ELSE prev_max

\* the flat list every return statement of the function gives (List[str])
flat_list(items) == [type |-> "list", items |-> items]

\* lines 257-266: the headings are collected; no heading: return []
AuditScan ==
    /\ op = "find_missing_chapters" /\ pc = "loop"
    /\ raw_numbers' = collect_raw_numbers(doc)
    /\ IF raw_numbers' = <<>>
       THEN pc' = "done" /\ issues' = flat_list(<<>>)
       ELSE pc' = "scanned" /\ UNCHANGED issues
    /\ UNCHANGED <<wordVars, sepVars, op, doc, files, idx, fs0, uploadVars, glowVars, fileVars, dupVars, expected, missing,
                   major_order, majors, prev_major, prev_max_minor>>

\* lines 268-271
AuditIntegerStart ==
    /\ op = "find_missing_chapters" /\ pc = "scanned"
    /\ ~contains_decimal(raw_numbers)
    /\ expected' = initial_expected(numbers_of(raw_numbers))
    /\ missing' = <<>>
    /\ idx' = 1
    /\ pc' = "integer"
    /\ UNCHANGED <<wordVars, sepVars, op, doc, files, fs0, uploadVars, glowVars, fileVars, dupVars, raw_numbers,
                   major_order, majors, prev_major, prev_max_minor, issues>>

\* lines 273-277: one heading of the integer walk
AuditIntegerStep ==
    /\ op = "find_missing_chapters" /\ pc = "integer" /\ idx <= Len(raw_numbers)
    /\ LET current == numbers_of(raw_numbers)[idx]
       IN  /\ missing' = missing \o missing_range(expected, current)
           /\ expected' = current + 1
    /\ idx' = idx + 1
    /\ UNCHANGED <<wordVars, sepVars, op, pc, doc, files, fs0, uploadVars, glowVars, fileVars, dupVars, raw_numbers,
                   major_order, majors, prev_major, prev_max_minor, issues>>

\* line 279
AuditIntegerReturn ==
    /\ op = "find_missing_chapters" /\ pc = "integer" /\ idx > Len(raw_numbers)
    /\ issues' = flat_list(missing)
    /\ pc' = "done"
    /\ UNCHANGED <<wordVars, sepVars, op, doc, files, idx, fs0, uploadVars, glowVars, fileVars, dupVars, raw_numbers, expected,
                   missing, major_order, majors, prev_major, prev_max_minor>>

\* lines 281-302: the pairs are grouped by major; no pair: return []
AuditDecimalStart ==
    /\ op = "find_missing_chapters" /\ pc = "scanned"
    /\ contains_decimal(raw_numbers)
    /\ LET pairs == decimal_chapters(raw_numbers)
       IN  /\ chapters' = pairs
           /\ IF pairs = <<>>
              THEN /\ pc' = "done"
                   /\ issues' = flat_list(<<>>)
                   /\ major_order' = major_order
                   /\ majors' = majors
              ELSE /\ pc' = "decimal"
                   /\ issues' = issues
                   /\ major_order' = major_order_of(pairs, {})
                   /\ majors' = majors_of(pairs)
    /\ missing' = <<>>
    /\ prev_major' = -1
    /\ prev_max_minor' = -1
    /\ idx' = 1
    /\ UNCHANGED <<wordVars, sepVars, op, doc, files, fs0, uploadVars, glowVars, fileVars, content_map, duplicates,
                   raw_numbers, expected>>

\* lines 304-333: one major of major_order
AuditMajorStep ==
    /\ op = "find_missing_chapters" /\ pc = "decimal" /\ idx <= Len(major_order)
    /\ LET major             == major_order[idx]
           ordered_minors    == ordered_minors_of(majors[major])
           current_max_minor == current_max_minor_of(ordered_minors)
       IN  /\ missing' = missing
                         \o gap_fill(prev_major, prev_max_minor, major)
                         \o within_major(major, ordered_minors, 1)
                         \o degrade_fill(prev_max_minor, major, current_max_minor)
           /\ prev_major' = major
           /\ prev_max_minor' = next_prev_max_minor(prev_max_minor, current_max_minor)
    /\ idx' = idx + 1
    /\ UNCHANGED <<wordVars, sepVars, op, pc, doc, files, fs0, uploadVars, glowVars, fileVars, dupVars, raw_numbers, expected,
                   major_order, majors, issues>>

\* line 335
AuditDecimalReturn ==
    /\ op = "find_missing_chapters" /\ pc = "decimal" /\ idx > Len(major_order)
    /\ issues' = flat_list(missing)
    /\ pc' = "done"
    /\ UNCHANGED <<wordVars, sepVars, op, doc, files, idx, fs0, uploadVars, glowVars, fileVars, dupVars, raw_numbers, expected,
                   missing, major_order, majors, prev_major, prev_max_minor>>

(***************************************************************************)
(* Specifications                                                          *)
(***************************************************************************)
IdleFiles ==
    /\ files = <<>> /\ fs0 = <<>> /\ fs = <<>>
    /\ current_open = FALSE /\ current_title = <<>> /\ current_paragraphs = <<>>
    /\ created_files = <<>> /\ skipped_chapters = <<>>

IdleDup == chapters = <<>> /\ content_map = <<>> /\ duplicates = <<>>

IdleAudit ==
    /\ raw_numbers = <<>> /\ expected = 0 /\ missing = <<>>
    /\ major_order = <<>> /\ majors = <<>>
    /\ prev_major = -1 /\ prev_max_minor = -1
    /\ issues = [type |-> "none", items |-> <<>>]

IdleWords == results = <<>> /\ words = <<>>

IdleSep == loaded = <<>> /\ docx = <<>> /\ separators = <<>> /\ fix_calls = <<>>

IdleUpload ==
    /\ keywords = {} /\ settings = {} /\ driver = "none" /\ form = {}
    /\ uploaded = <<>> /\ detections = <<>> /\ upload_results = <<>> /\ outcome = "none"

IdleGlow ==
    /\ animating = FALSE /\ offset = 0 /\ span_px = 1 /\ animation_speed = 1
    /\ pending = 0 /\ image_state = "hidden" /\ image_x = 0 /\ hovered = FALSE

InitFiles ==
    /\ IdleUpload /\ IdleGlow
    /\ pc = "loop"
    /\ idx = 1
    /\ \/ /\ op \in {"split_document", "split_chapters_into_two"}
          /\ doc \in Documents
          /\ files = <<>>
          /\ \E names \in OldNames : fs0 = Directory(names)
       \/ /\ op = "convert_docx_to_fb2"
          /\ doc \in Fb2Documents
          /\ files \in ChosenFiles
          /\ \E names \in OldFb2Names : fs0 = Directory(names)
    /\ fs = fs0
    /\ current_open = FALSE /\ current_title = <<>> /\ current_paragraphs = <<>>
    /\ created_files = <<>> /\ skipped_chapters = <<>>
    /\ IdleDup /\ IdleAudit /\ IdleWords /\ IdleSep

NextFiles ==
    \/ SplitDocumentStep
    \/ SplitDocumentReturn
    \/ SplitTwoStep
    \/ SplitTwoReturn
    \/ ConvertDocxToFb2
    \/ ConvertReturn

SpecFiles == InitFiles /\ [][NextFiles]_vars

InitDuplicates ==
    /\ IdleUpload /\ IdleGlow
    /\ op = "find_duplicate_chapters"
    /\ pc = "loop"
    /\ doc \in DupDocuments
    /\ idx = 1
    /\ IdleFiles /\ IdleDup /\ IdleAudit /\ IdleWords /\ IdleSep

NextDuplicates ==
    \/ DuplicatesScanStep
    \/ DuplicatesScanEnd
    \/ DuplicatesGroupStep
    \/ DuplicatesReturn

SpecDuplicates == InitDuplicates /\ [][NextDuplicates]_vars

InitAudit ==
    /\ IdleUpload /\ IdleGlow
    /\ op = "find_missing_chapters"
    /\ pc = "loop"
    /\ doc \in AuditDocuments
    /\ idx = 1
    /\ IdleFiles /\ IdleDup /\ IdleAudit /\ IdleWords /\ IdleSep

NextAudit ==
    \/ AuditScan
    \/ AuditIntegerStart
    \/ AuditIntegerStep
    \/ AuditIntegerReturn
    \/ AuditDecimalStart
    \/ AuditMajorStep
    \/ AuditDecimalReturn

SpecAudit == InitAudit /\ [][NextAudit]_vars

(***************************************************************************)
(* Properties of the file-writing functions                                *)
(***************************************************************************)
\* the paragraphs of the files at `paths`, concatenated in order
RECURSIVE ConcatFiles(_, _)
ConcatFiles(dir, paths) ==
    IF paths = <<>> THEN <<>>
    ELSE dir[Head(paths)] \o ConcatFiles(dir, Tail(paths))

\* the pattern of cod.py line 42 (and of the test, line 34) on the trimmed text
MatchesHeadingPattern(para) == heading_match(strip(para), FALSE).matched

NonHeadingParagraphs(d) == SelectSeq(d, LAMBDA para : ~MatchesHeadingPattern(para))

\* the paragraphs that follow the first heading paragraph
AfterFirstHeading(d) ==
    LET heads == {i \in 1..Len(d) : MatchesHeadingPattern(d[i])}
    IN  IF heads = {} THEN <<>>
        ELSE SubSeq(d, (CHOOSE i \in heads : \A j \in heads : i <= j) + 1, Len(d))

SplitDocumentDone == op = "split_document" /\ pc = "done"

\* C1 as stated: the chapters written by split_document, concatenated in
\* order, are exactly the non-heading paragraphs of the document.
C1_AllNonHeadingParagraphs ==
    SplitDocumentDone =>
        ConcatFiles(fs, created_files) = NonHeadingParagraphs(doc)

\* C1, amended: the chapters written by split_document, concatenated in order,
\* are exactly the non-heading paragraphs that follow the first heading of the
\* document, in their original order.
C1_ParagraphsAfterFirstHeading ==
    SplitDocumentDone =>
        ConcatFiles(fs, created_files) = NonHeadingParagraphs(AfterFirstHeading(doc))

\* a finished run that dropped a leading paragraph and wrote two chapters
C1_Witness ==
    /\ SplitDocumentDone
    /\ Len(created_files) >= 2
    /\ ~MatchesHeadingPattern(doc[1])
    /\ ConcatFiles(fs, created_files) # <<>>

\* `name` with the suffix " (n)"
WithSuffix(name, n) == [name EXCEPT !.sfx = Append(name.sfx, n)]

\* p is what the unique-name rule gives the candidate `name` when the
\* directory holds the paths `before`
FreshFor(p, name, before) ==
    /\ p \notin before
    /\ \/ p = name
       \/ /\ name \in before
          /\ \E n \in 2..(Cardinality(before) + 2) :
                /\ p = WithSuffix(name, n)
                /\ \A k \in 2..(n - 1) : WithSuffix(name, k) \in before

\* the plain name of the k-th file the running step writes
CandidateName(k) ==
    CASE op = "split_document" ->
            Path(sanitize(current_title, <<"section">>), "docx")
      [] op = "split_chapters_into_two" ->
            LET part == IF k = 1 THEN "1" ELSE "2"
            IN  Path(sanitize(<<"Glava", " ">> \o current_title \o <<".", part>>,
                              <<"chapter_", part>>), "docx")
      [] op = "convert_docx_to_fb2" ->
            [files[idx] EXCEPT !.ext = "fb2"]

NoFileReplaced ==
    /\ \A p \in DOMAIN fs0 : p \in DOMAIN fs /\ fs[p] = fs0[p]
    /\ \A i, j \in 1..Len(created_files) : i # j => created_files[i] # created_files[j]
    /\ DOMAIN fs = DOMAIN fs0 \cup Range(created_files)

WritesOnlyFreshNames ==
    LET n0 == Len(created_files)
    IN  \A i \in (n0 + 1)..Len(created_files') :
            LET p      == created_files'[i]
                before == DOMAIN fs \cup {created_files'[j] : j \in (n0 + 1)..(i - 1)}
            IN  FreshFor(p, CandidateName(i - n0), before) /\ p \in DOMAIN fs'

\* C2: every file written by split_document, split_chapters_into_two and
\* convert_docx_to_fb2 goes to a path that did not exist just before the write,
\* the plain name when it is free and otherwise the name with " (N)" for the
\* smallest free N >= 2; no file that was there before is replaced and the
\* paths created in one run are pairwise distinct.
C2_UniqueOutputPaths == []NoFileReplaced /\ [][WritesOnlyFreshNames]_vars

\* two files of one run took " (3)" and " (4)": the plain name and " (2)"
\* were there before
C2_Witness ==
    \E i, j \in 1..Len(created_files) :
        /\ i < j
        /\ created_files[i].stem = created_files[j].stem
        /\ created_files[i].sfx = <<3>>
        /\ created_files[j].sfx = <<4>>

\* C3: no paragraph of a file written by split_document matches the heading
\* pattern on its trimmed text.
C3_NoHeadingInChapter ==
    op = "split_document" =>
        \A i \in 1..Len(created_files) :
            \A k \in 1..Len(fs[created_files[i]]) :
                ~MatchesHeadingPattern(fs[created_files[i]][k])

\* two chapters written, one of them with two body paragraphs
C3_Witness ==
    /\ SplitDocumentDone
    /\ Len(created_files) >= 2
    /\ \E i \in 1..Len(created_files) : Len(fs[created_files[i]]) >= 2

\* the running step of split_chapters_into_two closes the open chapter
ClosesChapter ==
    /\ op = "split_chapters_into_two" /\ pc = "loop" /\ current_open
    /\ \/ idx > Len(doc)
       \/ heading_match(strip(doc[idx]), TRUE).matched

SplitsChapter ==
    LET n0 == Len(created_files)
    IN  (op = "split_chapters_into_two" /\ Len(created_files') > n0) =>
            /\ ClosesChapter
            /\ Len(created_files') = n0 + 2
            /\ Len(current_paragraphs) >= 2
            /\ fs'[created_files'[n0 + 1]] # <<>>
            /\ fs'[created_files'[n0 + 2]] # <<>>
            /\ fs'[created_files'[n0 + 1]] \o fs'[created_files'[n0 + 2]]
                   = current_paragraphs

\* C4: when split_chapters_into_two splits a chapter, each of the two files
\* holds at least one paragraph and the first followed by the second is the
\* chapter's paragraph sequence.
C4_HalvesPartitionChapter == [][SplitsChapter]_vars

\* a chapter of three paragraphs was split
C4_Witness ==
    /\ op = "split_chapters_into_two"
    /\ Len(created_files) = 2
    /\ Len(fs[created_files[1]]) + Len(fs[created_files[2]]) = 3

SkipsShortChapter ==
    (ClosesChapter /\ Len(current_paragraphs) < 2) =>
        /\ skipped_chapters' = Append(skipped_chapters, current_title)
        /\ created_files' = created_files
        /\ fs' = fs
        /\ IF idx > Len(doc)
           THEN pc' = "done"
           ELSE pc' = "loop" /\ idx' = idx + 1 /\ current_open'
                /\ current_paragraphs' = <<>>

\* C5: a chapter with fewer than 2 body paragraphs is not split: its label is
\* appended to the skipped list, no file is written, and the function goes on
\* with the next paragraph (or returns at the end of the document).
C5_ShortChapterSkipped == [][SkipsShortChapter]_vars

\* the first chapter had no body and was skipped, a later one was split
C5_Witness ==
    /\ op = "split_chapters_into_two" /\ pc = "done"
    /\ Len(doc) >= 2
    /\ heading_match(strip(doc[1]), TRUE).matched
    /\ heading_match(strip(doc[2]), TRUE).matched
    /\ Len(skipped_chapters) = 1
    /\ Len(created_files) = 2

(***************************************************************************)
(* Properties of find_duplicate_chapters                                   *)
(***************************************************************************)
\* the positions of the heading paragraphs of d, in increasing order
HeadingPositions(d) ==
    LET heads == {i \in 1..Len(d) : heading_match(strip(d[i]), TRUE).matched}
        Nth[n \in 1..Cardinality(heads)] ==
            CHOOSE i \in heads : Cardinality({j \in heads : j < i}) = n - 1
    IN  [n \in 1..Cardinality(heads) |-> Nth[n]]

\* the chapters of d: the trimmed heading, and the content key of the
\* paragraphs up to the next heading (trimmed texts joined by newline, stripped)
ChaptersOf(d) ==
    LET hp == HeadingPositions(d)
        Last(n) == IF n = Len(hp) THEN Len(d) ELSE hp[n + 1] - 1
        Body(n) == [k \in 1..(Last(n) - hp[n]) |-> strip(d[hp[n] + k])]
    IN  [n \in 1..Len(hp) |->
            [title |-> strip(d[hp[n]]), content |-> strip(join_lines(Body(n)))]]

\* the titles of the chapters of cs whose content is c, in document order
TitlesWithContent(cs, c) ==
    LET same == SelectSeq(cs, LAMBDA ch : ch.content = c)
    IN  [k \in 1..Len(same) |-> same[k].title]

\* chapter ch is listed in group g: g shows its content and names its title
ListedIn(ch, g) == g.content = ch.content /\ ch.title \in Range(g.titles)

GroupingComplete ==
    LET cs == ChaptersOf(doc)
    IN  /\ \A i, j \in 1..Len(cs) :
               i # j =>
                   (cs[i].content = cs[j].content
                    <=> \E k \in 1..Len(duplicates) :
                            ListedIn(cs[i], duplicates[k]) /\ ListedIn(cs[j], duplicates[k]))
        /\ \A i \in 1..Len(cs) :
               (\E j \in 1..Len(cs) : j # i /\ cs[j].content = cs[i].content) =>
                   Cardinality({k \in 1..Len(duplicates) :
                                    duplicates[k].content = cs[i].content}) = 1
        /\ \A k \in 1..Len(duplicates) :
               duplicates[k].titles = TitlesWithContent(cs, duplicates[k].content)

\* C6: two chapters have identical normalized content if and only if
\* find_duplicate_chapters lists them in the same group, and every chapter
\* whose content is shared is listed in exactly one group, once per occurrence.
C6_GroupingComplete ==
    (op = "find_duplicate_chapters" /\ pc = "done") => GroupingComplete

\* two groups were found, of chapters with and without text
C6_Witness ==
    /\ op = "find_duplicate_chapters" /\ pc = "done"
    /\ Len(duplicates) = 2
    /\ \E k \in 1..2 : duplicates[k].content = <<"a">>

(***************************************************************************)
(* Properties of find_missing_chapters                                     *)
(***************************************************************************)
AuditDone == op = "find_missing_chapters" /\ pc = "done"

IntegerMode == raw_numbers # <<>> /\ ~contains_decimal(raw_numbers)

DecimalMode == contains_decimal(raw_numbers)

\* "Glava n" for every integer n strictly between two consecutive headings
\* a and b of the document, in increasing order
Between(a, b) == [k \in 1..Max(b - a - 1, 0) |-> format_chapter_number(<<a + k>>)]

RECURSIVE GapsBetweenNeighbours(_)
GapsBetweenNeighbours(numbers) ==
    IF Len(numbers) < 2 THEN <<>>
    ELSE Between(numbers[1], numbers[2]) \o GapsBetweenNeighbours(Tail(numbers))

\* C7: in integer mode the missing list is the result of the expected-counter
\* walk that starts at the first major: for each heading, the integers from
\* the number after the preceding heading up to the one before it, once each;
\* [1, 2, 4] gives ["Glava 3"] and a gap-free increasing sequence gives nothing.
C7_IntegerWalk ==
    (AuditDone /\ IntegerMode) =>
        LET numbers == numbers_of(raw_numbers)
        IN  /\ issues.items = GapsBetweenNeighbours(numbers)
            /\ numbers = <<1, 2, 4>> => issues.items = <<<<"Glava", " ", "3">>>>
            /\ (\A i \in 2..Len(numbers) : numbers[i] = numbers[i - 1] + 1)
                   => issues.items = <<>>

\* the audit of a document whose headings are 2 and 4: only 3 is missing
C7_Witness ==
    /\ AuditDone /\ IntegerMode
    /\ numbers_of(raw_numbers) = <<2, 4>>
    /\ issues.items = <<<<"Glava", " ", "3">>>>

\* the raw numbers that occur more than once among the headings
RepeatedNumbers ==
    {raw_numbers[i] : i \in {i \in 1..Len(raw_numbers) :
                                \E j \in 1..Len(raw_numbers) :
                                    j # i /\ raw_numbers[j] = raw_numbers[i]}}

\* C8 as stated: find_missing_chapters returns the three categories missing,
\* duplicates and unexpected, and a label that occurs more than once among the
\* headings is listed once in duplicates and in neither other category.
C8_DuplicatesCategory ==
    (AuditDone /\ RepeatedNumbers # {}) =>
        /\ issues.type = "categories"
        /\ \A r \in RepeatedNumbers :
               LET label == <<"Glava", " ">> \o r
               IN  /\ Cardinality({i \in 1..Len(issues.duplicates) :
                                       issues.duplicates[i] = label}) = 1
                   /\ label \notin Range(issues.missing)
                   /\ label \notin Range(issues.unexpected)

\* the largest minor present under a major
LargestMinor(major) == CHOOSE x \in Range(majors[major]) :
                           \A y \in Range(majors[major]) : y <= x

\* the entries the running step appends to missing
Appended == SubSeq(missing', Len(missing) + 1, Len(missing'))

\* the step for a major whose largest minor m is below the largest minor p of
\* the major before it appends, above m, exactly major.(m+1) .. major.p
DegradesToPrecedingMajor ==
    (op = "find_missing_chapters" /\ pc = "decimal" /\ idx >= 2
         /\ idx <= Len(major_order) /\ idx' = idx + 1) =>
        LET major == major_order[idx]
            m     == LargestMinor(major)
            p     == LargestMinor(major_order[idx - 1])
            above == SelectSeq(Appended,
                               LAMBDA e : \E v \in (m + 1)..(m + Len(Appended) + 1) :
                                              e = format_chapter_number(<<major, v>>))
        IN  m < p => above = [k \in 1..(p - m) |-> format_chapter_number(<<major, m + k>>)]

DecimalExample ==
    <<<<"1", ".", "1">>, <<"1", ".", "2">>, <<"2", ".", "1">>, <<"3", ".", "1">>>>

\* C9: in decimal mode, a major whose largest minor m is smaller than the
\* largest minor p of the major seen immediately before it gets exactly the
\* labels major.(m+1) .. major.p reported above m; the reference is the
\* preceding major's own largest minor: [1.1, 1.2, 2.1, 3.1] gives
\* ["Glava 2.2"] and nothing for major 3.
C9_DegradeToPrecedingMajor ==
    /\ []((AuditDone /\ raw_numbers = DecimalExample)
              => issues.items = <<<<"Glava", " ", "2", ".", "2">>>>)
    /\ [][DegradesToPrecedingMajor]_vars

\* majors 1, 2, 3 with largest minors 3, 2, 1: 2.3 was reported for major 2,
\* then 3.2 and not 3.3 for major 3
C9_Witness ==
    /\ AuditDone /\ DecimalMode
    /\ major_order = <<1, 2, 3>>
    /\ LargestMinor(1) = 3 /\ LargestMinor(2) = 2 /\ LargestMinor(3) = 1
    /\ <<"Glava", " ", "2", ".", "3">> \in Range(issues.items)
    /\ <<"Glava", " ", "3", ".", "2">> \in Range(issues.items)
    /\ <<"Glava", " ", "3", ".", "3">> \notin Range(issues.items)

\* the parts per chapter established before position n of major_order: the
\* largest minor of the majors seen earlier
Established(n) ==
    LET earlier == {LargestMinor(major_order[i]) : i \in 1..(n - 1)}
    IN  CHOOSE k \in earlier : \A x \in earlier : x <= k

\* C10 as stated: in decimal mode, once earlier majors have established k
\* parts per chapter, every later major with fewer than k parts has its absent
\* parts up to k reported missing, also when the major immediately before it
\* was itself short: [1.1, 1.2, 2.1, 3.1] gives ["Glava 2.2", "Glava 3.2"].
C10_EstablishedParts ==
    (AuditDone /\ DecimalMode) =>
        /\ \A n \in 2..Len(major_order) :
               \A v \in 1..Established(n) :
                   v \notin Range(majors[major_order[n]])
                       => format_chapter_number(<<major_order[n], v>>) \in Range(issues.items)
        /\ raw_numbers = DecimalExample
               => issues.items = <<<<"Glava", " ", "2", ".", "2">>,
                                   <<"Glava", " ", "3", ".", "2">>>>

\* the part numbers 1..k are all and the only minors of the major
HasExactlyParts(major, k) == Range(majors[major]) = 1..k

\* the labels major.v at position n of major_order with v above k, when every
\* major seen earlier has exactly the parts 1..k
BeyondEstablished(n) ==
    {format_chapter_number(<<major_order[n], v>>) :
        v \in {v \in Range(majors[major_order[n]]) :
                  \E k \in 1..(v - 1) :
                      \A i \in 1..(n - 1) : HasExactlyParts(major_order[i], k)}}

\* C11 as stated: in decimal mode, when all earlier majors have exactly k parts
\* and a later major has a part numbered above k, that label is reported in
\* the unexpected category and neither missing nor duplicates gains an entry.
C11_UnexpectedMinor ==
    (AuditDone /\ DecimalMode) =>
        \A n \in 2..Len(major_order) :
            \A label \in BeyondEstablished(n) :
                /\ issues.type = "categories"
                /\ label \in Range(issues.unexpected)
                /\ label \notin Range(issues.missing)
                /\ label \notin Range(issues.duplicates)

(***************************************************************************)
(* Properties of the heading matcher                                       *)
(***************************************************************************)
\* the trimmed text starts with the heading word in any letter case, then one
\* or more whitespace characters, then a digit (a ".digits" part may follow)
StartsAsHeading(text) ==
    /\ Len(text) >= 3
    /\ text[1] \in {"Glava", "GLAVA"}
    /\ \E n \in 2..(Len(text) - 1) :
           /\ \A j \in 2..n : text[j] \in Whitespace
           /\ text[n + 1] \in DigitChars

\* C12 as stated: split_document, split_chapters_into_two,
\* find_duplicate_chapters and find_missing_chapters recognise exactly the same
\* paragraphs of a document as headings, those whose trimmed text starts with
\* the heading word in any letter case, whitespace and a number.
C12_SameHeadingPattern ==
    \A i \in 1..Len(doc) :
        LET text == strip(doc[i])
        IN  /\ is_heading_split_document(text) = StartsAsHeading(text)
            /\ is_heading_split_two(text) = StartsAsHeading(text)
            /\ is_heading_duplicates(text) = StartsAsHeading(text)
            /\ is_heading_missing(text) = StartsAsHeading(text)

\* the three patterns compiled with re.IGNORECASE do agree with the stated one
IgnoreCasePatternsAgree ==
    \A i \in 1..Len(doc) :
        LET text == strip(doc[i])
        IN  /\ is_heading_split_two(text) = StartsAsHeading(text)
            /\ is_heading_duplicates(text) = StartsAsHeading(text)
            /\ is_heading_missing(text) = StartsAsHeading(text)

\* the labels of the numbering audit: the parts of every collected number
AuditLabels == {[k \in 1..Len(split_dot(raw_numbers[i])) |->
                    to_int(split_dot(raw_numbers[i])[k])] : i \in 1..Len(raw_numbers)}

\* C13 as stated: every label taken from a paragraph accepted as a heading has
\* major >= 1 and, when a minor is present, minor >= 1.
C13_LabelPartsPositive ==
    \A label \in AuditLabels : \A k \in 1..Len(label) : label[k] >= 1

(***************************************************************************)
(* check_english_words.  A text is a sequence of characters; the tokens    *)
(* "YO", "Zh", "ya" and "yo" stand for the Cyrillic letters U+0401,        *)
(* U+0416, U+044F and U+0451, one character each.                          *)
(***************************************************************************)
\* longest document of the word scan
MaxWordParas == 3

\* [A-Za-z], the letters the inputs use
Latin == {"H", "T", "W", "a", "b", "d", "e", "l", "o", "r", "s", "t"}

\* the Cyrillic letters of the second pattern, the ones the inputs use
Cyrillic == {"YO", "Zh", "ya", "yo"}

\* ord(c)
ord(c) ==
    CASE c = " " -> 32 [] c = "," -> 44 [] c = ":" -> 58
      [] c = "H" -> 72 [] c = "T" -> 84 [] c = "W" -> 87
      [] c = "a" -> 97 [] c = "b" -> 98 [] c = "d" -> 100 [] c = "e" -> 101
      [] c = "l" -> 108 [] c = "o" -> 111 [] c = "r" -> 114 [] c = "s" -> 115
      [] c = "t" -> 116
      [] c = "YO" -> 1025 [] c = "Zh" -> 1046 [] c = "ya" -> 1103 [] c = "yo" -> 1105

\* a < b for two str: the first differing code point decides, a prefix is less
RECURSIVE str_less(_, _)
str_less(a, b) ==
    IF b = <<>> THEN FALSE
    ELSE IF a = <<>> THEN TRUE
    ELSE IF Head(a) # Head(b) THEN ord(Head(a)) < ord(Head(b))
    ELSE str_less(Tail(a), Tail(b))

\* re.compile("[S]+").finditer(text) from position i on: the maximal runs,
\* left to right, with match.start() (0-based) and match.group()
RECURSIVE finditer(_, _, _)
finditer(text, S, i) ==
    IF i > Len(text) THEN <<>>
    ELSE IF text[i] \in S
    THEN LET n == Span(text, i, S)
         IN  <<[start |-> i - 1, group |-> SubSeq(text, i, i + n - 1)]>>
             \o finditer(text, S, i + n)
    ELSE finditer(text, S, i + 1)

\* a word with a Latin letter counts, whatever else it holds
is_mixed_any(word) == Range(word) \cap Latin # {}

\* line 199: re.search(Latin, word) and re.search(Cyrillic, word)
is_mixed(word) == Range(word) \cap Latin # {} /\ Range(word) \cap Cyrillic # {}

\* results.setdefault(word, []).append(position); a new key goes to the end
setdefault_append(map, word, position) ==
    IF {k \in 1..Len(map) : map[k].word = word} # {}
    THEN [k \in 1..Len(map) |->
             IF map[k].word = word
             THEN [map[k] EXCEPT !.positions = Append(@, position)]
             ELSE map[k]]
    ELSE Append(map, [word |-> word, positions |-> <<position>>])

\* lines 192-195: every match is recorded at (p_idx, match.start() + 1)
RECURSIVE record_english(_, _, _)
record_english(map, matches, p_idx) ==
    IF matches = <<>> THEN map
    ELSE record_english(
             setdefault_append(map, Head(matches).group, <<p_idx, Head(matches).start + 1>>),
             Tail(matches), p_idx)

\* lines 197-201: a match is recorded when it holds both kinds of letter
RECURSIVE record_mixed(_, _, _)
record_mixed(map, matches, p_idx) ==
    IF matches = <<>> THEN map
    ELSE record_mixed(
             IF is_mixed(Head(matches).group)
             THEN setdefault_append(map, Head(matches).group,
                                    <<p_idx, Head(matches).start + 1>>)
             ELSE map,
             Tail(matches), p_idx)

\* line 203: sorted(results.items()); the keys are distinct, so by word
RECURSIVE sorted_items(_)
sorted_items(map) ==
    IF map = <<>> THEN <<>>
    ELSE LET least == CHOOSE k \in 1..Len(map) :
                          \A j \in 1..Len(map) : j # k => str_less(map[k].word, map[j].word)
         IN  <<map[least]>>
             \o sorted_items([j \in 1..(Len(map) - 1) |->
                                 IF j < least THEN map[j] ELSE map[j + 1]])

\* lines 189-201: one paragraph, both patterns
WordsParagraphStep ==
    /\ op = "check_english_words" /\ pc = "loop" /\ idx <= Len(doc)
    /\ LET text == doc[idx]
           english == record_english(results, finditer(text, Latin, 1), idx)
       IN  results' = record_mixed(english, finditer(text, Latin \cup Cyrillic, 1), idx)
    /\ idx' = idx + 1
    /\ UNCHANGED <<op, pc, doc, files, fs0, uploadVars, glowVars, fileVars, dupVars, auditVars, words, sepVars>>

\* line 203
WordsReturn ==
    /\ op = "check_english_words" /\ pc = "loop" /\ idx > Len(doc)
    /\ words' = sorted_items(results)
    /\ pc' = "done"
    /\ UNCHANGED <<op, doc, files, idx, fs0, uploadVars, glowVars, fileVars, dupVars, auditVars, results, sepVars>>

Hello == <<"H", "e", "l", "l", "o">>
Test  == <<"T", "e", "s", "t">>
World == <<"W", "o", "r", "l", "d">>

\* n Cyrillic letters
Cyr(n) == [i \in 1..n |-> "Zh"]

\* the three paragraphs of test_check_english_words, letter for letter in
\* their Latin words and punctuation, every Cyrillic letter written "Zh"
ExampleWords == <<
    Cyr(6) \o <<" ">> \o Hello \o <<" ">> \o Cyr(3),
    Cyr(3) \o <<" ">> \o Test \o <<" ">> \o Cyr(8),
    Cyr(6) \o <<" ">> \o Cyr(5) \o <<":", " ">> \o World \o <<",", " ">> \o Hello >>

WordPool == {
    <<>>,
    <<"Zh", " ", "a", "b", " ", "ya">>,
    <<"a", "b">>,
    <<"a", "Zh", "b">>,
    <<"Zh", "ya">>,
    <<"b", ",", " ", "a", "b">>,
    <<"T", "yo", " ", "YO", "t">>
}

WordDocuments == UNION {[1..n -> WordPool] : n \in 0..MaxWordParas} \cup {ExampleWords}

InitWords ==
    /\ IdleUpload /\ IdleGlow
    /\ op = "check_english_words"
    /\ pc = "loop"
    /\ doc \in WordDocuments
    /\ idx = 1
    /\ IdleFiles /\ IdleDup /\ IdleAudit /\ IdleWords /\ IdleSep

NextWords ==
    \/ WordsParagraphStep
    \/ WordsReturn

SpecWords == InitWords /\ [][NextWords]_vars

(***************************************************************************)
(* Properties of check_english_words                                       *)
(***************************************************************************)
\* text[i..j] is a maximal run of characters of S
MaximalRun(text, i, j, S) ==
    /\ i <= j /\ j <= Len(text)
    /\ \A k \in i..j : text[k] \in S
    /\ i = 1 \/ text[i - 1] \notin S
    /\ j = Len(text) \/ text[j + 1] \notin S

\* the entries the scan owes a document: word, paragraph index, start offset
OwedRuns(text) ==
    {r \in (1..Len(text)) \X (1..Len(text)) :
        \/ MaximalRun(text, r[1], r[2], Latin)
        \/ /\ MaximalRun(text, r[1], r[2], Latin \cup Cyrillic)
           /\ \E k \in r[1]..r[2] : text[k] \in Latin
           /\ \E k \in r[1]..r[2] : text[k] \in Cyrillic}

OwedEntries(d) ==
    UNION {{[word |-> SubSeq(d[p], r[1], r[2]), at |-> <<p, r[1]>>] : r \in OwedRuns(d[p])} :
              p \in 1..Len(d)}

\* (p, i) comes before (q, j)
PositionBefore(a, b) == a[1] < b[1] \/ (a[1] = b[1] /\ a[2] < b[2])

\* C14: check_english_words returns one entry for every maximal run of Latin
\* letters and for every maximal run of Latin/Cyrillic letters that holds both
\* kinds, under the run's text at (paragraph index, start offset), both
\* 1-based, and nothing else; no position is listed twice; the words come in
\* ascending code-point order; the three paragraphs of the test give
\* {Hello: [(1,8),(3,22)], Test: [(2,5)], World: [(3,15)]}.
C14_WordMapping ==
    (op = "check_english_words" /\ pc = "done") =>
        /\ UNION {{[word |-> words[k].word, at |-> words[k].positions[n]] :
                       n \in 1..Len(words[k].positions)} : k \in 1..Len(words)}
               = OwedEntries(doc)
        /\ \A k \in 1..Len(words) :
               /\ words[k].positions # <<>>
               /\ \A n \in 1..(Len(words[k].positions) - 1) :
                      PositionBefore(words[k].positions[n], words[k].positions[n + 1])
        /\ \A k \in 1..(Len(words) - 1) : str_less(words[k].word, words[k + 1].word)
        /\ doc = ExampleWords =>
               words = << [word |-> Hello, positions |-> << <<1, 8>>, <<3, 22>> >>],
                          [word |-> Test,  positions |-> << <<2, 5>> >>],
                          [word |-> World, positions |-> << <<3, 15>> >>] >>

\* a scan that met a mixed word and found one Latin word at two places
C14_Witness ==
    /\ op = "check_english_words" /\ pc = "done"
    /\ \E k \in 1..Len(words) : words[k].word = <<"a", "Zh", "b">>
    /\ \E k \in 1..Len(words) :
           words[k].word = <<"a", "b">> /\ Len(words[k].positions) = 2

(***************************************************************************)
(* collect_formatted_separators and fix_formatted_separator.               *)
(*                                                                         *)
(* A paragraph is its w:p element: the w:pPr child, when there is one,     *)
(* with its own children, and the other children, which are runs.  A run   *)
(* has the text of its w:t and the w:pict / w:drawing elements it embeds;  *)
(* an embedded element is given with its descendants in document order,    *)
(* each with a tag and its attributes.  Attribute values are strings: an   *)
(* hr flag and a style are written character by character, a title or a    *)
(* description word by word.                                               *)
(***************************************************************************)
\* longest document of the separator search
MaxSepParas == 2
\* most calls of fix_formatted_separator in one run
MaxFixCalls == 3

_VML_SHAPE_TAGS == {"v:shape", "v:rect", "v:oval", "v:line"}

_OFFICE_HR_ATTRIBUTES == {"o:hr", "o:hrstd", "o:hralign", "o:hrpct"}

_OFFICE_HR_TAG == "o:hr"

_HORIZONTAL_RULE_KEYWORDS == {
    <<"horizontal", " ", "line">>,
    <<"horizontal", " ", "rule">>,
    <<"gorizontalnaya", " ", "liniya">>,
    <<"razdelitel">>
}

\* str.lower(), on the characters and words the inputs use
lower(value) ==
    [i \in 1..Len(value) |->
        CASE value[i] = "F" -> "f" [] value[i] = "H" -> "h" [] value[i] = "R" -> "r"
          [] value[i] = "Horizontal" -> "horizontal" [] value[i] = "LINE" -> "line"
          [] value[i] = "Razdelitel" -> "razdelitel"
          [] OTHER -> value[i]]

\* sub in value
contains(value, sub) ==
    {i \in 1..(Len(value) - Len(sub) + 1) : SubSeq(value, i, i + Len(sub) - 1) = sub} # {}

\* element.get(name, default)
get(element, name, default) ==
    IF name \in DOMAIN element.attrs THEN element.attrs[name] ELSE default

\* None where a string is expected, and where an element is
None == <<"None">>
NoElement == [tag |-> "None"]

\* p_pr.find(qn("w:pBdr")): the first child with the tag, or None
find(children, tag) ==
    LET found == {i \in 1..Len(children) : children[i].tag = tag}
    IN  IF found = {} THEN NoElement
        ELSE children[CHOOSE i \in found : \A j \in found : i <= j]

\* lines 370-385: _paragraph_has_horizontal_border
paragraph_has_horizontal_border(paragraph) ==
    IF ~paragraph.pPr.present THEN FALSE
    ELSE LET border == find(paragraph.pPr.children, "w:pBdr")
         IN  IF border = NoElement THEN FALSE
             ELSE Range(border.children)
                      \cap {"w:top", "w:bottom", "w:between", "w:bar"} # {}

\* line 397: an hr attribute whose value is set and is not a spelling of false
hr_attribute_set(child) ==
    {attr \in _OFFICE_HR_ATTRIBUTES :
        LET value == get(child, attr, None)
        IN  /\ value # None /\ value # <<>>
            /\ lower(value) \notin {<<"f">>, <<"f", "a", "l", "s", "e">>, <<"0">>}} # {}

\* lines 399-400: the style, spaces removed and lowered, holds "hr"
style_holds_hr(child) ==
    LET style == get(child, "style", None)
    IN  /\ style # None /\ style # <<>>
        /\ contains(lower(SelectSeq(style, LAMBDA c : c # " ")), <<"h", "r">>)

\* lines 388-402: _element_defines_horizontal_rule, over element.iter()
element_defines_horizontal_rule(element) ==
    {i \in 1..Len(element.descendants) :
        LET child == element.descendants[i]
        IN  \/ child.tag = _OFFICE_HR_TAG
            \/ /\ child.tag \in _VML_SHAPE_TAGS
               /\ hr_attribute_set(child) \/ style_holds_hr(child)} # {}

\* lines 416-424: a docPr or cNvPr of the drawing names a horizontal rule
names_horizontal_rule(drawing, tag) ==
    {i \in 1..Len(drawing.descendants) :
        LET element == drawing.descendants[i]
            text    == lower(get(element, "title", <<>>) \o <<" ">>
                             \o get(element, "descr", <<>>))
        IN  /\ element.tag = tag
            /\ \E keyword \in _HORIZONTAL_RULE_KEYWORDS : contains(text, keyword)} # {}

\* paragraph.text: the text of the runs
RECURSIVE runs_text(_)
runs_text(content) ==
    IF content = <<>> THEN <<>> ELSE Head(content).text \o runs_text(Tail(content))

\* paragraph._p.iter(tag): the embedded elements with the tag, in order
RECURSIVE embedded(_, _)
embedded(content, tag) ==
    IF content = <<>> THEN <<>>
    ELSE SelectSeq(Head(content).inner, LAMBDA e : e.tag = tag)
         \o embedded(Tail(content), tag)

\* lines 406-430: _paragraph_contains_horizontal_rule_shape
paragraph_contains_horizontal_rule_shape(paragraph) ==
    IF strip(runs_text(paragraph.content)) # <<>> THEN FALSE
    ELSE \/ \E pict \in Range(embedded(paragraph.content, "w:pict")) :
                element_defines_horizontal_rule(pict)
         \/ \E drawing \in Range(embedded(paragraph.content, "w:drawing")) :
                \/ names_horizontal_rule(drawing, "wp:docPr")
                \/ names_horizontal_rule(drawing, "pic:cNvPr")
                \/ element_defines_horizontal_rule(drawing)

\* line 437: the test of collect_formatted_separators
is_formatted_separator(paragraph) ==
    \/ paragraph_has_horizontal_border(paragraph)
    \/ paragraph_contains_horizontal_rule_shape(paragraph)

\* "***" and U+200B
Marker == <<"*", "*", "*", "ZWSP">>

\* the w:pBdr stays in place
keep_border(children) == children

\* lines 454-457: the first w:pBdr of the w:pPr is removed
remove_border(children) ==
    LET found == {i \in 1..Len(children) : children[i].tag = "w:pBdr"}
    IN  IF found = {} THEN children
        ELSE LET at == CHOOSE i \in found : \A j \in found : i <= j
             IN  [i \in 1..(Len(children) - 1) |->
                     IF i < at THEN children[i] ELSE children[i + 1]]

\* lines 445-457: fix_formatted_separator; every child but w:pPr goes, the
\* text becomes one run holding the marker, w:pPr is there afterwards
fix_formatted_separator(paragraph) ==
    [pPr     |-> [present  |-> TRUE,
                  children |-> remove_border(paragraph.pPr.children)],
     content |-> <<[tag |-> "w:r", text |-> Marker, inner |-> <<>>]>>]

\* lines 436-441: one paragraph of collect_formatted_separators
CollectSeparatorStep ==
    /\ op = "find_formatted_separators" /\ pc = "collect" /\ idx <= Len(docx)
    /\ separators' = IF is_formatted_separator(docx[idx])
                     THEN Append(separators, idx)
                     ELSE separators
    /\ idx' = idx + 1
    /\ UNCHANGED <<op, pc, doc, files, fs0, uploadVars, glowVars, fileVars, dupVars, auditVars, wordVars,
                   loaded, docx, fix_calls>>

\* line 442 and cod.py 1106-1110: the list is returned; nothing found ends it
CollectSeparatorsReturn ==
    /\ op = "find_formatted_separators" /\ pc = "collect" /\ idx > Len(docx)
    /\ pc' = IF separators = <<>> THEN "done" ELSE "popup"
    /\ UNCHANGED <<op, doc, files, idx, fs0, uploadVars, glowVars, fileVars, dupVars, auditVars, wordVars, sepVars>>

\* fix_formatted_separator on each of the paragraphs at `indices`, in order
RECURSIVE fix_each(_, _)
fix_each(document, indices) ==
    IF indices = <<>> THEN document
    ELSE fix_each([document EXCEPT ![Head(indices)] = fix_formatted_separator(@)],
                  Tail(indices))

\* cod.py 1137-1141: the button that fixes every paragraph found
FixButton ==
    /\ op = "find_formatted_separators" /\ pc = "popup"
    /\ docx' = fix_each(docx, separators)
    /\ fix_calls' = fix_calls \o separators
    /\ pc' = "done"
    /\ UNCHANGED <<op, doc, files, idx, fs0, uploadVars, glowVars, fileVars, dupVars, auditVars, wordVars,
                   loaded, separators>>

\* cod.py 1163-1165: the button that closes the list
CloseButton ==
    /\ op = "find_formatted_separators" /\ pc = "popup"
    /\ pc' = "done"
    /\ UNCHANGED <<op, doc, files, idx, fs0, uploadVars, glowVars, fileVars, dupVars, auditVars, wordVars, sepVars>>

\* fix_formatted_separator called on a paragraph of the document
FixFormattedSeparator ==
    /\ op = "fix_formatted_separator" /\ Len(fix_calls) < MaxFixCalls
    /\ \E i \in 1..Len(docx) :
           /\ docx' = [docx EXCEPT ![i] = fix_formatted_separator(@)]
           /\ fix_calls' = Append(fix_calls, i)
    /\ UNCHANGED <<op, pc, doc, files, idx, fs0, uploadVars, glowVars, fileVars, dupVars, auditVars, wordVars,
                   loaded, separators>>

NoPPr == [present |-> FALSE, children |-> <<>>]

PPr(children) == [present |-> TRUE, children |-> children]

PBdr(edges) == [tag |-> "w:pBdr", children |-> edges]

Jc == [tag |-> "w:jc", children |-> <<>>]

Run(text, inner) == [tag |-> "w:r", text |-> text, inner |-> inner]

Element(tag, attrs) == [tag |-> tag, attrs |-> attrs]

NoAttrs == [name \in {} |-> <<>>]

\* a w:pict or w:drawing with the given elements under it
Embedded(tag, below) ==
    [tag |-> tag, descendants |-> <<Element(tag, NoAttrs)>> \o below]

\* the v:rect of the tests, o:hr = "t"
HrRect == Element("v:rect", [name \in {"o:hr"} |-> <<"t">>])

SepPool == {
    [pPr |-> NoPPr, content |-> <<>>],
    [pPr |-> NoPPr, content |-> <<Run(<<"a">>, <<>>)>>],
    [pPr |-> PPr(<<Jc>>), content |-> <<Run(<<"a">>, <<>>)>>],
    [pPr |-> PPr(<<PBdr(<<"w:bottom">>)>>), content |-> <<Run(<<"a">>, <<>>)>>],
    [pPr |-> PPr(<<Jc, PBdr(<<"w:left">>)>>), content |-> <<Run(<<"a">>, <<>>)>>],
    [pPr |-> PPr(<<PBdr(<<"w:left", "w:bar">>), Jc>>), content |-> <<>>],
    [pPr |-> NoPPr, content |-> <<Run(<<>>, <<Embedded("w:pict", <<HrRect>>)>>)>>],
    [pPr |-> PPr(<<PBdr(<<"w:bottom">>)>>),
     content |-> <<Run(<<>>, <<Embedded("w:pict", <<HrRect>>)>>)>>],
    [pPr |-> NoPPr,
     content |-> <<Run(<<"a">>, <<>>), Run(<<>>, <<Embedded("w:pict", <<HrRect>>)>>)>>],
    [pPr |-> NoPPr,
     content |-> <<Run(<<" ">>, <<Embedded("w:pict",
                      <<Element("v:rect", [name \in {"o:hr"} |-> <<"F">>])>>)>>)>>],
    [pPr |-> NoPPr,
     content |-> <<Run(<<>>, <<Embedded("w:pict",
                      <<Element("v:line", [name \in {"o:hralign"} |-> <<"c">>])>>)>>)>>],
    [pPr |-> NoPPr,
     content |-> <<Run(<<>>, <<Embedded("w:pict",
                      <<Element("v:shape", [name \in {"style"} |->
                                               <<"w", ":", "t", "h", "r", "u">>])>>)>>)>>],
    [pPr |-> NoPPr,
     content |-> <<Run(<<>>, <<Embedded("w:pict",
                      <<Element("v:shape", [name \in {"style"} |->
                                               <<"w", ":", "1">>])>>)>>)>>],
    [pPr |-> NoPPr,
     content |-> <<Run(<<>>, <<Embedded("w:pict", <<Element("o:hr", NoAttrs)>>)>>)>>],
    [pPr |-> NoPPr,
     content |-> <<Run(<<>>, <<Embedded("w:drawing",
                      <<Element("wp:docPr", [name \in {"title"} |->
                                                <<"Horizontal", " ", "LINE">>])>>)>>)>>],
    [pPr |-> NoPPr,
     content |-> <<Run(<<>>, <<Embedded("w:drawing",
                      <<Element("wp:docPr", [name \in {"title", "descr"} |->
                                                IF name = "title" THEN <<"Horizontal">>
                                                ELSE <<"line">>])>>)>>)>>],
    [pPr |-> NoPPr,
     content |-> <<Run(<<>>, <<Embedded("w:drawing",
                      <<Element("wp:docPr", [name \in {"title"} |-> <<"photo">>]),
                        Element("pic:cNvPr", [name \in {"descr"} |->
                                                 <<"Razdelitel">>])>>)>>)>>],
    [pPr |-> NoPPr,
     content |-> <<Run(<<>>, <<Embedded("w:drawing",
                      <<Element("wp:docPr", [name \in {"title"} |-> <<"photo">>])>>)>>)>>],
    [pPr |-> NoPPr,
     content |-> <<Run(<<>>, <<Embedded("w:drawing",
                      <<Element("wp:docPr", NoAttrs), HrRect>>)>>)>>]
}

SepDocuments == UNION {[1..n -> SepPool] : n \in 0..MaxSepParas}

InitSeparators ==
    /\ IdleUpload /\ IdleGlow
    /\ \/ op = "find_formatted_separators" /\ pc = "collect"
       \/ op = "fix_formatted_separator" /\ pc = "call"
    /\ loaded \in SepDocuments
    /\ docx = loaded
    /\ separators = <<>>
    /\ fix_calls = <<>>
    /\ doc = <<>>
    /\ idx = 1
    /\ IdleFiles /\ IdleDup /\ IdleAudit /\ IdleWords

NextSeparators ==
    \/ CollectSeparatorStep
    \/ CollectSeparatorsReturn
    \/ FixButton
    \/ CloseButton
    \/ FixFormattedSeparator

SpecSeparators == InitSeparators /\ [][NextSeparators]_vars

(***************************************************************************)
(* Properties of the separator functions                                   *)
(***************************************************************************)
\* the paragraph reads as the marker, declares no border and embeds nothing
Normalized(paragraph) ==
    /\ runs_text(paragraph.content) = Marker
    /\ \A i \in 1..Len(paragraph.pPr.children) : paragraph.pPr.children[i].tag # "w:pBdr"
    /\ embedded(paragraph.content, "w:pict") = <<>>
    /\ embedded(paragraph.content, "w:drawing") = <<>>

\* a call of fix_formatted_separator on a paragraph it was called on before
\* changes nothing
SecondFixChangesNothing ==
    \A i \in Range(fix_calls) :
        (op = "fix_formatted_separator" /\ fix_calls' = Append(fix_calls, i))
            => docx' = docx

\* C15: after fix_formatted_separator a paragraph has the marker as its text,
\* no border declaration and no embedded pict or drawing, whatever borders and
\* shapes it had, and a further fix_formatted_separator leaves it exactly as
\* it is.
C15_FixIdempotent ==
    /\ [](\A i \in Range(fix_calls) : Normalized(docx[i]))
    /\ [][SecondFixChangesNothing]_vars

\* the paragraph of the test, a bottom border and a flagged v:rect, fixed twice
C15_Witness ==
    /\ op = "fix_formatted_separator"
    /\ fix_calls = <<1, 1>>
    /\ paragraph_has_horizontal_border(loaded[1])
    /\ embedded(loaded[1].content, "w:pict") # <<>>
    /\ Normalized(docx[1])

\* (a) of the claim: the paragraph formatting declares a border on the top,
\* bottom, between or bar edge
DeclaresSeparatorBorder(paragraph) ==
    \E i \in 1..Len(paragraph.pPr.children) :
        /\ paragraph.pPr.children[i].tag = "w:pBdr"
        /\ Range(paragraph.pPr.children[i].children)
               \cap {"w:top", "w:bottom", "w:between", "w:bar"} # {}

\* (b) of the claim: the text is empty or whitespace and the paragraph embeds
\* a legacy vector shape with a horizontal-rule attribute that is set, or a
\* drawing whose title or description holds one of the keywords in any case
EmbedsRuleShape(paragraph) ==
    /\ strip(runs_text(paragraph.content)) = <<>>
    /\ \/ \E e \in Range(embedded(paragraph.content, "w:pict"))
                   \cup Range(embedded(paragraph.content, "w:drawing")) :
              \E k \in 1..Len(e.descendants) :
                  /\ e.descendants[k].tag \in _VML_SHAPE_TAGS
                  /\ hr_attribute_set(e.descendants[k])
       \/ \E e \in Range(embedded(paragraph.content, "w:drawing")) :
              \E k \in 1..Len(e.descendants) :
                  /\ e.descendants[k].tag \in {"wp:docPr", "pic:cNvPr"}
                  /\ \E keyword \in _HORIZONTAL_RULE_KEYWORDS :
                         \/ contains(lower(get(e.descendants[k], "title", <<>>)), keyword)
                         \/ contains(lower(get(e.descendants[k], "descr", <<>>)), keyword)

CollectDone == op = "find_formatted_separators" /\ pc \in {"popup", "done"}

\* C16 as stated: collect_formatted_separators reports a paragraph, by its
\* 1-based index and in document order, exactly when it declares a separator
\* border or is blank and embeds a shape flagged as a horizontal rule or a
\* drawing named by a keyword; no other paragraph is reported.
C16_ReportedExactly ==
    CollectDone =>
        /\ Range(separators) =
               {i \in 1..Len(loaded) :
                   DeclaresSeparatorBorder(loaded[i]) \/ EmbedsRuleShape(loaded[i])}
        /\ \A k \in 1..(Len(separators) - 1) : separators[k] < separators[k + 1]

(***************************************************************************)
(* The four heading-driven operations on one family of documents           *)
(***************************************************************************)
\* longest document given to all four operations
MaxDetectorParas == 3

DetectorPool == {H1, h2, H11, Ta, Blank}

DetectorDocuments == UNION {[1..n -> DetectorPool] : n \in 0..MaxDetectorParas}

InitDetectors ==
    /\ IdleUpload /\ IdleGlow
    /\ pc = "loop"
    /\ idx = 1
    /\ doc \in DetectorDocuments
    /\ files = <<>>
    /\ \/ /\ op \in {"split_document", "split_chapters_into_two"}
          /\ \E names \in OldNames : fs0 = Directory(names)
       \/ /\ op \in {"find_duplicate_chapters", "find_missing_chapters"}
          /\ fs0 = <<>>
    /\ fs = fs0
    /\ current_open = FALSE /\ current_title = <<>> /\ current_paragraphs = <<>>
    /\ created_files = <<>> /\ skipped_chapters = <<>>
    /\ IdleDup /\ IdleAudit /\ IdleWords /\ IdleSep

NextDetectors ==
    \/ SplitDocumentStep
    \/ SplitDocumentReturn
    \/ SplitTwoStep
    \/ SplitTwoReturn
    \/ DuplicatesScanStep
    \/ DuplicatesScanEnd
    \/ DuplicatesGroupStep
    \/ DuplicatesReturn
    \/ AuditScan
    \/ AuditIntegerStart
    \/ AuditIntegerStep
    \/ AuditIntegerReturn
    \/ AuditDecimalStart
    \/ AuditMajorStep
    \/ AuditDecimalReturn

SpecDetectors == InitDetectors /\ [][NextDetectors]_vars

\* no paragraph of the document is a heading
NoHeadingParagraph == \A i \in 1..Len(doc) : ~StartsAsHeading(strip(doc[i]))

\* C17: on a document with no heading paragraph every detector ends normally
\* and empty-handed: split_document and split_chapters_into_two write no file
\* (and skip no label), find_duplicate_chapters returns no group and
\* find_missing_chapters returns nothing.
C17_NoHeadingNoResult ==
    (NoHeadingParagraph /\ pc = "done") =>
        /\ op \in {"split_document", "split_chapters_into_two"} =>
               created_files = <<>> /\ skipped_chapters = <<>> /\ fs = fs0
        /\ op = "find_duplicate_chapters" => duplicates = <<>>
        /\ op = "find_missing_chapters" => issues.type = "list" /\ issues.items = <<>>

\* the duplicate search finished on three paragraphs, two of them alike, none
\* a heading
C17_Witness ==
    /\ op = "find_duplicate_chapters" /\ pc = "done"
    /\ doc = <<Ta, Blank, Ta>>
    /\ duplicates = <<>>

(***************************************************************************)
(* Further properties of split_document and split_chapters_into_two        *)
(***************************************************************************)
\* the positions of the paragraphs of d that satisfy Is, in increasing order
PositionsWhere(d, Is(_)) ==
    LET at == {i \in 1..Len(d) : Is(d[i])}
    IN  [n \in 1..Cardinality(at) |->
            CHOOSE i \in at : Cardinality({j \in at : j < i}) = n - 1]

\* the paragraphs after position hp[n] up to the next position of hp, or to
\* the end of d
BodyAfter(d, hp, n) ==
    SubSeq(d, hp[n] + 1, IF n = Len(hp) THEN Len(d) ELSE hp[n + 1] - 1)

\* C18: split_document writes exactly one chapter file per heading paragraph,
\* in heading order and named after the heading; the file holds the paragraphs
\* between its heading and the next heading or the end of the document (none,
\* when there are none), so every paragraph after the first heading is in the
\* chapter of the nearest heading before it and the paragraphs before the
\* first heading are in no chapter.
C18_OneChapterPerHeading ==
    SplitDocumentDone =>
        LET hp == PositionsWhere(doc, MatchesHeadingPattern)
        IN  /\ Len(created_files) = Len(hp)
            /\ \A n \in 1..Len(hp) :
                   /\ created_files[n].stem = sanitize(strip(doc[hp[n]]), <<"section">>)
                   /\ fs[created_files[n]] = BodyAfter(doc, hp, n)

\* a paragraph before the first heading, a chapter with an empty body and one
\* with a body
C18_Witness ==
    /\ SplitDocumentDone
    /\ Len(doc) = 4
    /\ ~MatchesHeadingPattern(doc[1])
    /\ Len(created_files) = 2
    /\ fs[created_files[1]] = <<>>
    /\ fs[created_files[2]] # <<>>

\* the weight of a paragraph: the length of its trimmed text, 1 at least
Weight(para) == IF len(strip(para)) >= 1 THEN len(strip(para)) ELSE 1

\* the weight of the first k paragraphs of ps
RECURSIVE Cumulative(_, _)
Cumulative(ps, k) == IF k = 0 THEN 0 ELSE Cumulative(ps, k - 1) + Weight(ps[k])

\* the smallest count of leading paragraphs that weighs half the total or
\* more, clamped into [1, n - 1]
StatedSplitIndex(ps) ==
    LET n     == Len(ps)
        total == Cumulative(ps, n)
        k     == CHOOSE k \in 1..n :
                     /\ 2 * Cumulative(ps, k) >= total
                     /\ \A j \in 1..(k - 1) : 2 * Cumulative(ps, j) < total
    IN  IF k > n - 1 THEN n - 1 ELSE IF k < 1 THEN 1 ELSE k

SplitsAtStatedIndex ==
    (ClosesChapter /\ Len(current_paragraphs) >= 2) =>
        LET n  == Len(current_paragraphs)
            k  == StatedSplitIndex(current_paragraphs)
            n0 == Len(created_files)
        IN  /\ Len(created_files') = n0 + 2
            /\ fs'[created_files'[n0 + 1]] = SubSeq(current_paragraphs, 1, k)
            /\ fs'[created_files'[n0 + 2]] = SubSeq(current_paragraphs, k + 1, n)

\* C19: split_chapters_into_two splits a chapter of n paragraphs at k, the
\* smallest count of leading paragraphs whose weight (the length of the
\* trimmed text, 1 at least) reaches half the total weight, clamped into
\* [1, n - 1]: the first file holds the first k paragraphs, the second the
\* other n - k.
C19_SplitIndex == [][SplitsAtStatedIndex]_vars

\* half the weight is reached only with the last paragraph, and the index is
\* clamped: "a" went to part 1 and "bbb" to part 2
C19_Witness ==
    /\ op = "split_chapters_into_two"
    /\ Len(created_files) = 2
    /\ fs[created_files[1]] = <<Ta>>
    /\ fs[created_files[2]] = <<Tbbb>>

\* the paragraph is a heading for split_chapters_into_two
IsChapterHeading(para) == StartsAsHeading(strip(para))

\* the label of a heading: its major, or major.minor when it has a minor
StatedLabel(para) ==
    LET m == heading_match(strip(para), TRUE)
    IN  IF m.has_minor THEN m.major \o <<".">> \o m.minor ELSE m.major

\* the chapters of d as split_chapters_into_two detects them, in order
DetectedChapters(d) ==
    LET hp == PositionsWhere(d, IsChapterHeading)
    IN  [n \in 1..Len(hp) |->
            [label |-> StatedLabel(d[hp[n]]), body |-> BodyAfter(d, hp, n)]]

\* what the chapters cs owe: the labels skipped, and the stem and content of
\* the files written, in order
RECURSIVE Accounted(_)
Accounted(cs) ==
    IF cs = <<>> THEN [skipped |-> <<>>, written |-> <<>>]
    ELSE LET rest == Accounted(Tail(cs))
             label == Head(cs).label
         IN  IF Len(Head(cs).body) >= 2
             THEN [skipped |-> rest.skipped,
                   written |-> << <<"Glava", " ">> \o label \o <<".", "1">>,
                                  <<"Glava", " ">> \o label \o <<".", "2">> >>
                               \o rest.written]
             ELSE [skipped |-> <<label>> \o rest.skipped, written |-> rest.written]

\* C20: split_chapters_into_two accounts for every detected chapter exactly
\* once and in document order: its label is appended to the skipped list and no
\* file is written, or two files are written, part 1 before part 2, named
\* "Glava <label>.1" and "Glava <label>.2"; so the number of files created is
\* twice the number of chapters less twice the number of labels skipped.
C20_EveryChapterAccounted ==
    (op = "split_chapters_into_two" /\ pc = "done") =>
        LET cs  == DetectedChapters(doc)
            due == Accounted(cs)
        IN  /\ skipped_chapters = due.skipped
            /\ [k \in 1..Len(created_files) |-> created_files[k].stem] = due.written
            /\ \A k \in 1..Len(created_files) : created_files[k] \in DOMAIN fs
            /\ DOMAIN fs = DOMAIN fs0 \cup Range(created_files)
            /\ Len(created_files) = 2 * Len(cs) - 2 * Len(skipped_chapters)

\* chapter 1.1 was split and chapter 1 after it skipped
C20_Witness ==
    /\ op = "split_chapters_into_two" /\ pc = "done"
    /\ skipped_chapters = <<<<"1">>>>
    /\ Len(created_files) = 2
    /\ created_files[1].stem = <<"Glava", " ", "1", ".", "1", ".", "1">>
    /\ created_files[2].stem = <<"Glava", " ", "1", ".", "1", ".", "2">>

(***************************************************************************)
(* Further properties of find_duplicate_chapters                           *)
(***************************************************************************)
\* the position, among the chapters cs, of the first one with content c
FirstWithContent(cs, c) ==
    CHOOSE i \in 1..Len(cs) :
        cs[i].content = c /\ \A j \in 1..(i - 1) : cs[j].content # c

\* C21: find_duplicate_chapters returns only groups of two titles or more, the
\* groups in the order of their first chapter in the document, the titles of a
\* group in document order; chapters with no body, or only blank paragraphs,
\* share the empty content and are grouped like any others.
C21_GroupsOrdered ==
    (op = "find_duplicate_chapters" /\ pc = "done") =>
        LET cs == ChaptersOf(doc)
        IN  /\ \A k \in 1..Len(duplicates) :
                   /\ Len(duplicates[k].titles) >= 2
                   /\ duplicates[k].titles = TitlesWithContent(cs, duplicates[k].content)
            /\ \A k \in 1..(Len(duplicates) - 1) :
                   FirstWithContent(cs, duplicates[k].content)
                       < FirstWithContent(cs, duplicates[k + 1].content)
            /\ Len(TitlesWithContent(cs, <<>>)) >= 2 =>
                   \E k \in 1..Len(duplicates) : duplicates[k].content = <<>>

\* the chapters without a body form the first group, a content that comes
\* later in the document the second
C21_Witness ==
    /\ op = "find_duplicate_chapters" /\ pc = "done"
    /\ Len(duplicates) = 2
    /\ duplicates[1].content = <<>>
    /\ duplicates[2].content = <<"a">>

(***************************************************************************)
(* Further properties of find_missing_chapters                             *)
(***************************************************************************)
\* the (major, minor) pairs of the headings that have a minor, in order
HeadingsWithMinor ==
    LET with == SelectSeq(raw_numbers, LAMBDA r : "." \in Range(r))
    IN  [i \in 1..Len(with) |->
            LET d == CHOOSE k \in 1..Len(with[i]) : with[i][k] = "."
            IN  <<to_int(SubSeq(with[i], 1, d - 1)),
                  to_int(SubSeq(with[i], d + 1, Len(with[i])))>>]

\* the minors present under a major
MinorsOf(major) ==
    {HeadingsWithMinor[i][2] : i \in {i \in 1..Len(HeadingsWithMinor) :
                                         HeadingsWithMinor[i][1] = major}}

LargestOf(S) == CHOOSE x \in S : \A y \in S : y <= x

\* the labels major.v for the v of S, in increasing order of v
RECURSIVE LabelsOf(_, _)
LabelsOf(major, S) ==
    IF S = {} THEN <<>>
    ELSE LET v == CHOOSE x \in S : \A y \in S : x <= y
         IN  <<format_chapter_number(<<major, v>>)>> \o LabelsOf(major, S \ {v})

\* the skipped majors from..to, each with the minors 1..limit
RECURSIVE SkippedMajors(_, _, _)
SkippedMajors(from, to, limit) ==
    IF from > to THEN <<>>
    ELSE LabelsOf(from, 1..limit) \o SkippedMajors(from + 1, to, limit)

\* the headings without a minor are dropped: the majors walked are those of
\* the headings with a minor, in first-seen order
WalksHeadingsWithMinor ==
    (op = "find_missing_chapters" /\ pc = "decimal") =>
        /\ chapters = HeadingsWithMinor
        /\ Range(major_order) = {HeadingsWithMinor[i][1] : i \in 1..Len(HeadingsWithMinor)}
        /\ \A i, j \in 1..Len(major_order) : i # j => major_order[i] # major_order[j]

\* the step for a major reports first the majors skipped since the one before
\* it, with the minors 1..max(largest minor of the one before, 1), then the
\* absent minors of the major from 1 to its largest, once each and in order
ReportsSkippedThenAbsent ==
    (op = "find_missing_chapters" /\ pc = "decimal"
         /\ idx <= Len(major_order) /\ idx' = idx + 1) =>
        LET major   == major_order[idx]
            before  == major_order[idx - 1]
            largest == LargestOf(MinorsOf(before))
            skipped == IF idx >= 2 /\ major - before > 1
                       THEN SkippedMajors(before + 1, major - 1,
                                          IF largest >= 1 THEN largest ELSE 1)
                       ELSE <<>>
            absent  == LabelsOf(major, (1..LargestOf(MinorsOf(major))) \ MinorsOf(major))
            own     == SelectSeq(Appended,
                                 LAMBDA e : \E v \in 1..(Len(Appended) + LargestOf(MinorsOf(major)) + 1) :
                                                e = format_chapter_number(<<major, v>>))
            others  == SelectSeq(Appended,
                                 LAMBDA e : \A v \in 1..(Len(Appended) + LargestOf(MinorsOf(major)) + 1) :
                                                e # format_chapter_number(<<major, v>>))
        IN  /\ Appended = others \o own
            /\ others = skipped
            /\ Len(own) >= Len(absent)
            /\ SubSeq(own, 1, Len(absent)) = absent

\* C22 as stated: in decimal mode the headings without a minor are dropped,
\* the minors of a major count once and in increasing order, every absent
\* minor from 1 to the major's largest is reported missing, and when a major
\* exceeds the one before it (first-seen order) by more than 1, every skipped
\* major is reported with the minors 1..max(largest minor of the one before,
\* 1), ahead of the entries of the current major.
C22_DecimalWalk == []WalksHeadingsWithMinor /\ [][ReportsSkippedThenAbsent]_vars

\* no heading of the document has a zero minor
MinorsPositive == \A i \in 1..Len(HeadingsWithMinor) : HeadingsWithMinor[i][2] >= 1

\* the same walk on the documents whose minors are all 1 or more
DecimalWalkOfPositiveMinors ==
    []WalksHeadingsWithMinor /\ [][MinorsPositive => ReportsSkippedThenAbsent]_vars

(***************************************************************************)
(* Further properties of check_english_words                               *)
(***************************************************************************)
\* the tokens both patterns match at the identical span: the maximal runs of
\* letters that hold Latin letters only
MatchedByBoth(d) ==
    UNION {{[word |-> SubSeq(d[p], r[1], r[2]), at |-> <<p, r[1]>>] :
               r \in {r \in (1..Len(d[p])) \X (1..Len(d[p])) :
                         /\ MaximalRun(d[p], r[1], r[2], Latin \cup Cyrillic)
                         /\ MaximalRun(d[p], r[1], r[2], Latin)}} :
              p \in 1..Len(d)}

\* how many times a position stands in the list of a word
TimesRecorded(word, at) ==
    Cardinality(UNION {{<<k, n>> : n \in {n \in 1..Len(words[k].positions) :
                                             words[k].positions[n] = at}} :
                          k \in {k \in 1..Len(words) : words[k].word = word}})

\* C23 as stated: a token matched by the pure-Latin pattern and by the mixed
\* pattern at the identical span is recorded by both passes, so that the list
\* of its word holds the same (paragraph, offset) pair twice.
C23_SamePositionTwice ==
    (op = "check_english_words" /\ pc = "done") =>
        \A e \in MatchedByBoth(doc) : TimesRecorded(e.word, e.at) = 2

\* C23 amended: a token matched by both patterns at the identical span is
\* recorded once, by the pure-Latin pass only, since the mixed pass keeps a
\* match only when it holds a Cyrillic letter; no list of a word holds the
\* same (paragraph, offset) pair twice.
C23_EachPositionOnce ==
    (op = "check_english_words" /\ pc = "done") =>
        /\ \A e \in MatchedByBoth(doc) : TimesRecorded(e.word, e.at) = 1
        /\ \A k \in 1..Len(words) :
               \A m, n \in 1..Len(words[k].positions) :
                   m # n => words[k].positions[m] # words[k].positions[n]

\* a finished scan of a paragraph where both patterns match "ab" at one span,
\* in a document that also holds a mixed word
C23_Witness ==
    /\ op = "check_english_words" /\ pc = "done"
    /\ [word |-> <<"a", "b">>, at |-> <<1, 1>>] \in MatchedByBoth(doc)
    /\ \E k \in 1..Len(words) : words[k].word = <<"a", "Zh", "b">>
    /\ \E k \in 1..Len(words) : words[k].word = <<"a", "b">>

(***************************************************************************)
(* upload_chapters (rulate_uploader.py) and its two callers.               *)
(*                                                                         *)
(* A call binds its arguments, starts the Chrome driver and handles the    *)
(* files one after another: it opens the upload page and sends the path to *)
(* the file input, fills the options and submits the form, then waits for  *)
(* the link of the chapter.  What the browser and the site do is the       *)
(* environment's choice: an element is found or not, a wait ends or times  *)
(* out, a driver call raises or not.                                       *)
(***************************************************************************)
\* most files of one call
MaxUploadFiles == 2

\* rulate_uploader.py 27-36: the parameters after the bare `*`
KeywordParameters == {"deferred", "subscription", "volume", "publish_at", "headless"}

\* rulate_cli.py 29-39: the keywords rulate_cli.main passes
CliKeywords ==
    {"username", "password", "deferred", "subscription", "volume", "publish_at", "headless"}

\* cod.py 1356-1366: the keywords the upload dialog passes
DialogKeywords ==
    {"username", "password", "deferred", "subscription", "volume", "publish_at"}

\* a call that passes the options only
OptionKeywords == {"deferred", "subscription", "volume", "publish_at"}

UploadPaths == {"ch1", "ch2"}

UploadFiles == UNION {[1..n -> UploadPaths] : n \in 0..MaxUploadFiles}

UploadSettings == {{}, {"volume"}, {"deferred", "subscription", "volume", "publish_at"}}

\* rulate_uploader.py 27-36: a keyword that names no parameter is a TypeError
binds(passed) == passed \subseteq KeywordParameters

\* results[file_path] = value on a dict kept in insertion order
setitem(map, key, value) ==
    IF {k \in 1..Len(map) : map[k].path = key} # {}
    THEN [k \in 1..Len(map) |-> IF map[k].path = key THEN [map[k] EXCEPT !.ok = value]
                                                         ELSE map[k]]
    ELSE Append(map, [path |-> key, ok |-> value])

\* rulate_uploader.py 27-36: the arguments are bound to the parameters
UploadCall ==
    /\ op = "upload_chapters" /\ pc = "call"
    /\ IF binds(keywords)
       THEN pc' = "start" /\ UNCHANGED outcome
       ELSE pc' = "done" /\ outcome' = "TypeError"
    /\ UNCHANGED <<op, doc, files, idx, fs0, fileVars, dupVars, auditVars, wordVars, sepVars,
                   glowVars, keywords, settings, driver, form, uploaded, detections,
                   upload_results>>

\* rulate_uploader.py 64-72: the driver is installed and started, outside the try
UploadStartDriver ==
    /\ op = "upload_chapters" /\ pc = "start"
    /\ \E started \in BOOLEAN :
           IF started
           THEN driver' = "started" /\ pc' = "loop" /\ UNCHANGED outcome
           ELSE pc' = "done" /\ outcome' = "raised" /\ UNCHANGED driver
    /\ upload_results' = <<>>
    /\ UNCHANGED <<op, doc, files, idx, fs0, fileVars, dupVars, auditVars, wordVars, sepVars,
                   glowVars, keywords, settings, form, uploaded, detections>>

\* rulate_uploader.py 75-83: the upload page is opened and the path is sent
UploadSendFile ==
    /\ op = "upload_chapters" /\ pc = "loop" /\ idx <= Len(files)
    /\ \E sent \in BOOLEAN :
           IF sent
           THEN /\ form' = {"file"}
                /\ uploaded' = Append(uploaded, files[idx])
                /\ pc' = "form"
           ELSE /\ form' = {}
                /\ pc' = "finally_raise"
                /\ UNCHANGED uploaded
    /\ UNCHANGED <<op, doc, files, idx, fs0, fileVars, dupVars, auditVars, wordVars, sepVars,
                   glowVars, keywords, settings, driver, detections, upload_results, outcome>>

\* rulate_uploader.py 85-116: each option that is set is filled unless its
\* element fails, which is swallowed; then the form is submitted
UploadSubmit ==
    /\ op = "upload_chapters" /\ pc = "form"
    /\ \E filled \in SUBSET settings : form' = form \cup filled
    /\ \E submitted \in BOOLEAN : pc' = IF submitted THEN "detect" ELSE "finally_raise"
    /\ UNCHANGED <<op, doc, files, idx, fs0, fileVars, dupVars, auditVars, wordVars, sepVars,
                   glowVars, keywords, settings, driver, uploaded, detections, upload_results,
                   outcome>>

\* rulate_uploader.py 118-127: the wait for the link of the chapter finds it,
\* times out, or fails otherwise
UploadDetect ==
    /\ op = "upload_chapters" /\ pc = "detect"
    /\ \E met \in {"found", "timeout", "error"} :
           /\ detections' = Append(detections, [path |-> files[idx], met |-> met])
           /\ IF met = "error"
              THEN pc' = "finally_raise" /\ UNCHANGED <<idx, upload_results>>
              ELSE /\ upload_results' = setitem(upload_results, files[idx], met = "found")
                   /\ idx' = idx + 1
                   /\ pc' = "loop"
    /\ UNCHANGED <<op, doc, files, fs0, fileVars, dupVars, auditVars, wordVars, sepVars,
                   glowVars, keywords, settings, driver, form, uploaded, outcome>>

\* rulate_uploader.py 129: the files are exhausted
UploadReturn ==
    /\ op = "upload_chapters" /\ pc = "loop" /\ idx > Len(files)
    /\ pc' = "finally_return"
    /\ UNCHANGED <<op, doc, files, idx, fs0, fileVars, dupVars, auditVars, wordVars, sepVars,
                   glowVars, uploadVars>>

\* the call ends as it stands
leave_as_is(state) == state

\* rulate_uploader.py 130-131: driver.quit()
quit(state) == "quit"

\* rulate_uploader.py 130-131: the finally clause, then the return or the
\* raise; driver.quit() may raise in its turn
UploadFinally ==
    /\ op = "upload_chapters" /\ pc \in {"finally_return", "finally_raise"}
    /\ driver' = quit(driver)
    /\ outcome' \in IF pc = "finally_return" THEN {"returned", "raised"} ELSE {"raised"}
    /\ pc' = "done"
    /\ UNCHANGED <<op, doc, files, idx, fs0, fileVars, dupVars, auditVars, wordVars, sepVars,
                   glowVars, keywords, settings, form, uploaded, detections, upload_results>>

InitUpload ==
    /\ op = "upload_chapters"
    /\ pc = "call"
    /\ keywords \in {CliKeywords, DialogKeywords, OptionKeywords}
    /\ settings \in UploadSettings
    /\ files \in UploadFiles
    /\ idx = 1
    /\ driver = "none" /\ form = {}
    /\ uploaded = <<>> /\ detections = <<>> /\ upload_results = <<>> /\ outcome = "none"
    /\ doc = <<>> /\ fs0 = <<>> /\ fs = <<>>
    /\ current_open = FALSE /\ current_title = <<>> /\ current_paragraphs = <<>>
    /\ created_files = <<>> /\ skipped_chapters = <<>>
    /\ IdleDup /\ IdleAudit /\ IdleWords /\ IdleSep /\ IdleGlow

NextUpload ==
    \/ UploadCall
    \/ UploadStartDriver
    \/ UploadSendFile
    \/ UploadSubmit
    \/ UploadDetect
    \/ UploadReturn
    \/ UploadFinally

SpecUpload == InitUpload /\ [][NextUpload]_vars

\* every statement of the call runs to its end: the waits are bounded by the
\* 20 s of WebDriverWait (rulate_uploader.py 70) and nothing else blocks
SpecUploadFair == SpecUpload /\ WF_vars(NextUpload)

(***************************************************************************)
(* Properties of upload_chapters                                           *)
(***************************************************************************)
\* what the last wait for the link of `path` met
LastDetection(path) ==
    LET at == {k \in 1..Len(detections) : detections[k].path = path}
    IN  detections[CHOOSE k \in at : \A j \in at : j <= k].met

\* the mapping has one boolean for each file, true exactly when the chapter
\* was found on the page
OneBooleanPerFile ==
    /\ {upload_results[k].path : k \in 1..Len(upload_results)} = Range(files)
    /\ \A j, k \in 1..Len(upload_results) :
           j # k => upload_results[j].path # upload_results[k].path
    /\ \A k \in 1..Len(upload_results) :
           upload_results[k].ok = (LastDetection(upload_results[k].path) = "found")

\* C24: upload_chapters accepts the call of rulate_cli.main and of the upload
\* dialog (book_url, files, username, password, deferred, subscription,
\* volume, publish_at) and, when it returns, gives a mapping with one boolean
\* for each file, true exactly when the chapter was detected on the page.
C24_AcceptsCallersKeywords ==
    (op = "upload_chapters" /\ pc = "done" /\ keywords \in {CliKeywords, DialogKeywords}) =>
        /\ outcome # "TypeError"
        /\ outcome = "returned" => OneBooleanPerFile

\* a call that binds returns the mapping that is stated
ReturnsOneBooleanPerFile ==
    (op = "upload_chapters" /\ pc = "done" /\ outcome = "returned") => OneBooleanPerFile

\* the files are handled one after another in the order given: the paths sent
\* so far are the first files of the list, and a path is sent only when every
\* file before it has been waited for
OneAfterAnother ==
    op = "upload_chapters" =>
        /\ Len(uploaded) <= Len(files)
        /\ uploaded = SubSeq(files, 1, Len(uploaded))
        /\ Len(uploaded) \in {idx - 1, idx}
        /\ pc \in {"form", "detect"} => Len(uploaded) = idx

\* a call that started the driver does not end with the driver running
QuitBeforeTheEnd ==
    (op = "upload_chapters" /\ pc = "done") => driver # "started"

\* once the driver is quit, nothing is sent, filled or recorded any more
NothingAfterQuit ==
    (op = "upload_chapters" /\ driver = "quit") =>
        /\ driver' = "quit"
        /\ UNCHANGED <<uploaded, form, detections, upload_results, idx>>

\* C25: upload_chapters uploads the files strictly one after another in the
\* order given; once the driver has started it is always quit before the call
\* ends, by a return or by an exception; no upload step follows the quit.
C25_SequentialThenQuit ==
    /\ []OneAfterAnother
    /\ []QuitBeforeTheEnd
    /\ (op = "upload_chapters" /\ driver = "started")
           ~> (driver = "quit" /\ pc = "done" /\ outcome \in {"returned", "raised"})
    /\ [][NothingAfterQuit]_vars

\* a call that sent the first of two files, failed on the second and ended
\* with the driver quit
C25_Witness ==
    /\ op = "upload_chapters" /\ pc = "done"
    /\ Len(files) = 2 /\ Len(uploaded) = 1 /\ Len(upload_results) = 1
    /\ driver = "quit" /\ outcome = "raised"

(***************************************************************************)
(* Further properties of split_chapters_into_two                           *)
(***************************************************************************)
\* a step reports a chapter skipped exactly when it closes a chapter of fewer
\* than 2 paragraphs; a chapter of n >= 2 paragraphs is cut at an index of
\* 1..n-1, so that its second half is never empty and it is never skipped
SkipsExactlyShortChapters ==
    op = "split_chapters_into_two" =>
        /\ skipped_chapters' # skipped_chapters
               <=> (ClosesChapter /\ Len(current_paragraphs) < 2)
        /\ (ClosesChapter /\ Len(current_paragraphs) >= 2) =>
               LET n  == Len(current_paragraphs)
                   n0 == Len(created_files)
               IN  /\ Len(created_files') = n0 + 2
                   /\ Len(fs'[created_files'[n0 + 1]]) \in 1..(n - 1)
                   /\ Len(fs'[created_files'[n0 + 2]])
                          = n - Len(fs'[created_files'[n0 + 1]])

\* C26: split_chapters_into_two reports a chapter skipped if and only if it
\* has fewer than 2 body paragraphs; for n >= 2 the clamped split index lies
\* in [1, n - 1], so the skip for an empty second half is never taken.
C26_SkippedIffShort == [][SkipsExactlyShortChapters]_vars

\* a chapter without body was skipped, and one whose loop index was its
\* length 2 was cut at 1 and not skipped
C26_Witness ==
    /\ op = "split_chapters_into_two" /\ pc = "done"
    /\ Len(skipped_chapters) = 1
    /\ Len(created_files) = 2
    /\ fs[created_files[1]] = <<Ta>>
    /\ fs[created_files[2]] = <<Tbbb>>

\* the index the loop stops at: the smallest count of leading paragraphs that
\* weighs half the total or more
LoopIndex(ps) ==
    CHOOSE k \in 1..Len(ps) :
        /\ 2 * Cumulative(ps, k) >= Cumulative(ps, Len(ps))
        /\ \A j \in 1..(k - 1) : 2 * Cumulative(ps, j) < Cumulative(ps, Len(ps))

\* the two halves written for a chapter of 2 paragraphs or more are balanced
BalancedHalves ==
    (ClosesChapter /\ Len(current_paragraphs) >= 2) =>
        LET n      == Len(current_paragraphs)
            n0     == Len(created_files)
            first  == fs'[created_files'[n0 + 1]]
            second == fs'[created_files'[n0 + 2]]
            total  == Cumulative(current_paragraphs, n)
            k0     == LoopIndex(current_paragraphs)
        IN  /\ Len(created_files') = n0 + 2
            /\ k0 < n =>
                   /\ Len(first) = k0
                   /\ Cumulative(first, Len(first)) >= Cumulative(second, Len(second))
                   /\ 2 * Cumulative(first, Len(first) - 1) < total
            /\ Cumulative(first, Len(first)) < Cumulative(second, Len(second)) =>
                   k0 = n /\ Len(first) = n - 1

\* C27: when the split index was not clamped, the first half weighs at least
\* as much as the second and, without its last paragraph, strictly less than
\* half the total; the first half is lighter than the second only when the
\* index was clamped from n to n - 1.
C27_BalancedHalves == [][BalancedHalves]_vars

\* an unclamped split with the heavier half first: "bbb" | "a", "a"
C27_Witness ==
    /\ op = "split_chapters_into_two"
    /\ Len(created_files) = 2
    /\ fs[created_files[1]] = <<Tbbb>>
    /\ fs[created_files[2]] = <<Ta, Ta>>

\* C28 as stated: no label reported missing by find_missing_chapters occurs as
\* a heading of the audited document, whatever the order of the headings
\* (decreasing, repeated, out of order), in integer and in decimal mode.
C28_MissingNeverPresent ==
    AuditDone =>
        \A k \in 1..Len(issues.items) :
            \A label \in AuditLabels : issues.items[k] # format_chapter_number(label)

\* the numbers of the headings never decrease
NumbersAscend ==
    \A i, j \in 1..Len(raw_numbers) :
        i < j => LET a == split_dot(raw_numbers[i])
                     b == split_dot(raw_numbers[j])
                 IN  \/ to_int(a[1]) < to_int(b[1])
                     \/ /\ to_int(a[1]) = to_int(b[1])
                        /\ Len(a) = Len(b)
                        /\ Len(a) = 2 => to_int(a[2]) <= to_int(b[2])

\* the same on the documents whose headings are in ascending order
MissingNeverPresentWhenAscending ==
    (AuditDone /\ NumbersAscend) =>
        \A k \in 1..Len(issues.items) :
            \A label \in AuditLabels : issues.items[k] # format_chapter_number(label)

(***************************************************************************)
(* Further properties of the separator functions                           *)
(***************************************************************************)
\* the indices collect_formatted_separators reports on a document
ReportedIn(document) ==
    {i \in 1..Len(document) :
        paragraph_has_horizontal_border(document[i])
            \/ paragraph_contains_horizontal_rule_shape(document[i])}

\* the fix button was pressed: every reported paragraph was fixed
FixedAll == op = "find_formatted_separators" /\ pc = "done" /\ fix_calls # <<>>

\* C29: once fix_formatted_separator has been applied to every paragraph that
\* collect_formatted_separators returned, a second collect on the document
\* returns nothing, and the paragraphs that were not reported are unchanged.
C29_FixClearsReport ==
    FixedAll =>
        /\ fix_calls = separators
        /\ ReportedIn(docx) = {}
        /\ Len(docx) = Len(loaded)
        /\ \A i \in 1..Len(loaded) : i \notin Range(separators) => docx[i] = loaded[i]

\* a document of a plain paragraph with text and a separator with a border
\* and an embedded shape, after the fix
C29_Witness ==
    /\ FixedAll
    /\ Len(loaded) = 2
    /\ fix_calls = <<2>>
    /\ runs_text(loaded[1].content) # <<>>
    /\ paragraph_has_horizontal_border(loaded[2])
    /\ embedded(loaded[2].content, "w:pict") # <<>>

(***************************************************************************)
(* GlowButton (glow_button.py): the pointer enters and leaves the button   *)
(* and the callbacks scheduled with after(50, ...) fire, in any order the  *)
(* event loop delivers them.  A callback, once scheduled, is never         *)
(* cancelled: it leaves the queue only by firing.                          *)
(***************************************************************************)
\* most callbacks the model lets be scheduled at one time
MaxPending == 3

\* width + 2 * border rounded up, 1 at least (glow_button.py 35)
SpanPool == {1, 2, 3, 5}

\* animation_speed, 1 at least (glow_button.py 46)
SpeedPool == {1, 2, 3}

\* glow_button.py 140: the offset after one frame
advance(current, speed, span) == (current + speed) % span

\* glow_button.py 144-161: _on_enter, with the _animate() it calls
OnEnter ==
    /\ op = "GlowButton"
    /\ IF ~animating
       THEN /\ pending < MaxPending
            /\ animating' = TRUE
            /\ image_state' = "normal"
            /\ offset' = advance(offset, animation_speed, span_px)
            /\ image_x' = -offset'
            /\ pending' = pending + 1
       ELSE UNCHANGED <<animating, image_state, offset, image_x, pending>>
    /\ hovered' = TRUE
    /\ UNCHANGED <<op, pc, doc, files, idx, fs0, fileVars, dupVars, auditVars, wordVars,
                   sepVars, uploadVars, span_px, animation_speed>>

\* glow_button.py 163-179: _on_leave
OnLeave ==
    /\ op = "GlowButton"
    /\ animating' = FALSE
    /\ image_state' = "hidden"
    /\ image_x' = 0
    /\ hovered' = FALSE
    /\ UNCHANGED <<op, pc, doc, files, idx, fs0, fileVars, dupVars, auditVars, wordVars,
                   sepVars, uploadVars, offset, span_px, animation_speed, pending>>

\* glow_button.py 137-142: a scheduled _animate fires
TimerFires ==
    /\ op = "GlowButton" /\ pending > 0
    /\ IF ~animating
       THEN /\ pending' = pending - 1
            /\ UNCHANGED <<offset, image_x>>
       ELSE /\ offset' = advance(offset, animation_speed, span_px)
            /\ image_x' = -offset'
            /\ pending' = pending
    /\ UNCHANGED <<op, pc, doc, files, idx, fs0, fileVars, dupVars, auditVars, wordVars,
                   sepVars, uploadVars, animating, span_px, animation_speed, image_state,
                   hovered>>

\* glow_button.py 31-48, 76-77: the button as constructed
InitGlow ==
    /\ op = "GlowButton"
    /\ pc = "mainloop"
    /\ span_px \in SpanPool
    /\ animation_speed \in SpeedPool
    /\ offset = 0
    /\ animating = FALSE
    /\ pending = 0
    /\ image_state = "hidden"
    /\ image_x = 0
    /\ hovered = FALSE
    /\ doc = <<>> /\ idx = 1
    /\ IdleFiles /\ IdleDup /\ IdleAudit /\ IdleWords /\ IdleSep /\ IdleUpload

NextGlow ==
    \/ OnEnter
    \/ OnLeave
    \/ TimerFires

SpecGlow == InitGlow /\ [][NextGlow]_vars

(***************************************************************************)
(* Properties of GlowButton                                                *)
(***************************************************************************)
\* the offset stays inside the span
OffsetInSpan == op = "GlowButton" => (0 <= offset /\ offset < span_px)

\* while the button is not animating, a step that is not an enter leaves the
\* offset as it is
StillAfterLeave ==
    (op = "GlowButton" /\ ~animating /\ ~animating') => offset' = offset

\* C30 as stated: for every interleaving of enter, leave and timer firings at
\* most one _animate callback is pending, 0 <= _offset < _span_px, and after
\* a leave no timer firing changes the offset until the next enter.
C30_SingleAnimation ==
    /\ [](op = "GlowButton" => pending <= 1)
    /\ []OffsetInSpan
    /\ [][StillAfterLeave]_vars

\* the two parts of the statement that do not count the callbacks
OffsetInSpanAndStillAfterLeave == []OffsetInSpan /\ [][StillAfterLeave]_vars

====
